---- MODULE Spec2Model ----
(***************************************************************************)
(* A model of augment_tools_core/file_cleaner.py (class FileCleaner):      *)
(*   - the escalating deleter safe_delete_file / _force_delete_file /      *)
(*     _kill_occupying_processes / _windows_force_delete /                 *)
(*     _unix_force_delete, one action per statement group of the ladder,   *)
(*     with the file system and the holder processes as the environment;   *)
(*   - the manifest sanitizer _clean_extensions_json.                      *)
(* Log entries are identified by the source line of the print_* call.      *)
(***************************************************************************)
EXTENDS Integers, Sequences, FiniteSets, TLC

\* ------------------------------------------------------------- bounds
\* Number of processes that may hold the target file open.
NPids == 2
\* Number of consecutive safe_delete_file calls on the same path.
MaxCalls == 2

Pids == 1..NPids

\* ---------------------------------------------------- program constants
\* e.errno in [13, 32]
EscalationErrnos == {13, 32}
\* errno values of unlink failures that are not lock/permission failures
\* (EPERM, EIO, EBUSY); ENOENT (2) arises when the file is gone.
OtherErrnos == {1, 5, 16}
\* time.sleep(1), time.sleep(2), time.sleep(5)
ShortSleep == 1
KillSleep == 2
FinalSleep == 5
\* os.chmod(file_path, 0o777)
ForcedMode == 511
\* len(methods) in _windows_force_delete
NumWinMethods == 3

VARIABLES
  osName,     \* os.name: "nt" or "posix"
  fexists,    \* the target path exists
  content,    \* the target file's content
  flags,      \* Windows attributes of the target (subset of R, S, H)
  mode,       \* Unix permission bits of the target
  holders,    \* live processes that hold the target open
  sysLock,    \* the caller is refused the deletion (EACCES) by the system
  fault,      \* errno of a persistent non-lock unlink failure, 0 if none
  removedBy,  \* "none", "deleter" or "env": who removed the target
  pc,         \* position inside safe_delete_file
  force,      \* force_mode of the running call
  steps,      \* the operations the running call has executed, in order
  logs,       \* the print_* calls of the running call, in order
  result,     \* the value returned by the last finished call
  toKill,     \* occupying_processes still to be iterated
  mi,         \* index of the next method of _windows_force_delete
  clock,      \* seconds slept by the running call
  calls,      \* number of calls started
  pre         \* the target as it was when the running call started

dvars == <<osName, fexists, content, flags, mode, holders, sysLock, fault,
           removedBy, pc, force, steps, logs, result, toKill, mi, clock,
           calls, pre>>

\* The sanitizer's state.
VARIABLES
  manifest,    \* content of extensions.json
  backups,     \* the backup files that exist: a set of [id, content]
  nextId,      \* names the next backup file
  spc,         \* position inside _clean_extensions_json
  backupPath,  \* backup_path of the running call, 0 for None
  data,        \* the value json.load returned
  filtered,    \* filtered_data
  removed,     \* removed_items
  sSteps,      \* the file operations of the running call, in order
  sLogs,       \* the print_* calls of the running call, in order
  sResult,     \* the value returned by the last finished call
  runs,        \* number of calls started
  sPre         \* manifest and backups when the running call started, the
               \* result of the call before it and whether that call ended
               \* without reporting an error or a warning

svars == <<manifest, backups, nextId, spc, backupPath, data, filtered, removed,
           sSteps, sLogs, sResult, runs, sPre>>

\* The state of the workspace sweep.
VARIABLES
  wRoot,       \* workspaceStorage: "absent", "present", "unlistable" (it
               \* exists and os.listdir is refused) or "denied" (stat on it
               \* is refused)
  wKids,       \* the entries of workspaceStorage, in the order iterdir
               \* yields them
  wPc,         \* position inside _clean_workspace_storage
  wForce,      \* force_mode of the running call
  wIdx,        \* index of workspace_dir in wKids
  wFile,       \* index of file_name in TARGET_FILES
  wInDir,      \* deleted_in_workspace
  wTotal,      \* total_deleted
  wProcessed,  \* workspaces_processed
  wLogs,       \* the print_* calls of the running call, in order
  wResult,     \* the value the call returned
  wPre,        \* wKids when the call started
  wMi,         \* index of the next method of _windows_force_delete
  wToKill,     \* how many of the processes found are still to be killed
  wTaken       \* the <<entry, file>> pairs of the target files another
               \* program removed while the call ran

wvars == <<wRoot, wKids, wPc, wForce, wIdx, wFile, wInDir, wTotal, wProcessed,
           wLogs, wResult, wPre, wMi, wToKill, wTaken>>

\* The state of the directory removers.
VARIABLES
  rMode,    \* the function called: "history" (_clean_history_folder) or
            \* "extensions" (_clean_profile_extensions)
  rStat,    \* the path passed: "absent", "present", "unlistable", "denied"
  rItems,   \* the trees concerned, in iterdir order: the History folder
            \* itself, or the entries of the extensions directory
  rPc,      \* position inside the function
  rForce,   \* force_mode of the running call
  rIdx,     \* index of item in rItems
  rCount,   \* deleted_count
  rLogs,    \* the print_* calls of the running call, in order
  rResult,  \* the value the call returned
  rPre      \* rItems when the call started

rvars == <<rMode, rStat, rItems, rPc, rForce, rIdx, rCount, rLogs, rResult, rPre>>

\* The state of the cleanup orchestrator.
VARIABLES
  oIde,     \* ide_type
  oPaths,   \* the keys of the dictionary get_ide_paths returns
  oGlobal,  \* the globalStorage directory and its two target files
  oStat,    \* what stat answers for the other paths
  oPc,      \* position inside clean_ide_files and the cleaners it calls
  oForce,   \* force_mode of the running call
  oIdx,     \* index of file_name in TARGET_FILES
  oCount,   \* deleted_count of the cleaner that is running
  oResults, \* the dictionary results
  oTried,   \* the zones whose cleaner has been called
  oLogs,    \* the print_* calls of clean_ide_files and the two cleaners
  oResult,  \* what clean_ide_files returned
  oMi,      \* index of the next method of _windows_force_delete
  oToKill   \* how many of the processes found are still to be killed

ovars == <<oIde, oPaths, oGlobal, oStat, oPc, oForce, oIdx, oCount, oResults,
           oTried, oLogs, oResult, oMi, oToKill>>

tvars == <<wvars, rvars, ovars>>

vars == <<dvars, svars, tvars>>

\* ------------------------------------------------------------ helpers
Step(o, a, r) == [op |-> o, a |-> a, r |-> r]
Log(l, n) == [lvl |-> l, line |-> n]

Snapshot == [exists |-> fexists, content |-> content, flags |-> flags,
             mode |-> mode, holders |-> holders]

\* A process that has the file open holds it against deletion on Windows
\* only: elsewhere unlink removes the name of a file that is open.
HeldOpen == osName = "nt" /\ holders # {}

\* What holds the file against an ordinary unlink.  On Windows a read-only
\* file cannot be unlinked either.
Locked == HeldOpen \/ sysLock \/ (osName = "nt" /\ "R" \in flags)

\* Path.unlink(): 0 on success, else the errno of the OSError raised.  The
\* right to change the directory is checked before anything about the file
\* itself, so the system's refusal comes before any other fault.
UnlinkErrno ==
  IF ~fexists THEN 2
  ELSE IF sysLock THEN 13
  ELSE IF fault # 0 THEN fault
  ELSE IF Locked THEN 13
  ELSE 0

\* A forced command can remove the file when nothing holds it open.
CanRemove == fexists /\ ~HeldOpen /\ ~sysLock /\ fault = 0

\* Mutant: the existence test is skipped.
PathExistsAlways(ex) == TRUE

\* if not file_path.exists(): return False
PathExists(ex) == ex

\* Mutant: the failed final retry reports nothing.
FinalFailureSilent == <<>>

\* The three messages of the failed final retry.
FinalFailureLogs == <<Log("error", 266), Log("error", 267), Log("info", 268)>>

\* if e.errno in [13, 32]
IsLockErrno(e) == e \in EscalationErrnos

\* Mutant: force_mode is not consulted.
EscalatesAlways(e, f) == e \in EscalationErrnos

\* if force_mode: return self._force_delete_file(file_path)
Escalates(e, f) == IsLockErrno(e) /\ f

\* Mutant: the command's exit status decides.
MethodWonByExitStatus(stillExists, rc) == rc = 0

\* Mutant: a zero exit status is accepted as well.
MethodWonEither(stillExists, rc) == ~stillExists \/ rc = 0

\* Mutant: the existence test is inverted.
MethodWonInverted(stillExists, rc) == stillExists

\* if not file_path.exists(): ... return True   (the command's exit status
\* rc is not consulted)
MethodWon(stillExists, rc) == ~stillExists

\* Mutant: no platform discovers holders.
HasHolderDiscoveryNowhere(os) == FALSE

\* if os.name == 'nt': holder discovery and the command ladder
HasHolderDiscovery(os) == os = "nt"

\* Mutant: the forced step follows the delayed retry at once.
AfterDelayedRetrySkipsDiscovery(os) == IF os = "nt" THEN "win" ELSE "unixforce"

\* What follows a failed delayed retry: holder discovery on Windows, else
\* _unix_force_delete.
AfterDelayedRetry(os) == IF HasHolderDiscovery(os) THEN "find" ELSE "unixforce"

\* The members of a set of process ids, listed in ascending order.
RECURSIVE Listed(_)
Listed(S) ==
  IF S = {} THEN <<>>
  ELSE LET m == CHOOSE x \in S : \A y \in S : x <= y
       IN <<m>> \o Listed(S \ {m})

\* ProcessManager.find_processes_using_file: the processes that have the
\* file open now; never raises.  The order of the list is not specified; the
\* process ids are interchangeable, so one order stands for all.
FindProcessesUsingFile == Listed(holders)

Return(v) == /\ pc' = "done"
             /\ result' = v

\* ------------------------------------------------------------- Init
InitDeleter ==
  /\ osName \in {"nt", "posix"}
  /\ fexists \in BOOLEAN
  /\ content = "c0"
  /\ flags \in (IF osName = "nt" /\ fexists
                THEN {{}, {"R"}, {"R", "S", "H"}} ELSE {{}})
  /\ mode \in (IF osName = "posix" /\ fexists THEN {420, 292} ELSE {420})
  /\ holders \in (IF fexists THEN SUBSET Pids ELSE {{}})
  /\ sysLock \in (IF fexists THEN BOOLEAN ELSE {FALSE})
  /\ fault \in (IF fexists THEN {0} \cup OtherErrnos ELSE {0})
  /\ removedBy = "none"
  /\ pc = "idle"
  /\ force = FALSE
  /\ steps = <<>>
  /\ logs = <<>>
  /\ result = FALSE
  /\ toKill = <<>>
  /\ mi = 1
  /\ clock = 0
  /\ calls = 0
  /\ pre = Snapshot

\* ----------------------------------------------------------- actions
\* safe_delete_file(file_path, force_mode) is entered.
Call(f) ==
  /\ pc \in {"idle", "done"}
  /\ calls < MaxCalls
  /\ calls' = calls + 1
  /\ force' = f
  /\ pc' = "exists"
  /\ steps' = <<>>
  /\ logs' = <<>>
  /\ result' = FALSE
  /\ toKill' = <<>>
  /\ mi' = 1
  /\ clock' = 0
  /\ pre' = Snapshot
  /\ UNCHANGED <<osName, fexists, content, flags, mode, holders, sysLock, fault, removedBy>>
  /\ UNCHANGED <<svars, tvars>>

\* if not file_path.exists(): return False ; print_info("尝试删除")
CheckExists ==
  /\ pc = "exists"
  /\ steps' = Append(steps, Step("exists", 0, IF fexists THEN 1 ELSE 0))
  /\ IF PathExists(fexists)
       THEN /\ pc' = "unlink0"
            /\ logs' = Append(logs, Log("info", 150))
            /\ UNCHANGED result
       ELSE /\ Return(FALSE)
            /\ UNCHANGED logs
  /\ UNCHANGED <<osName, fexists, content, flags, mode, holders, sysLock, fault,
                 removedBy, force, toKill, mi, clock, calls, pre>>
  /\ UNCHANGED <<svars, tvars>>

\* The first attempt: file_path.unlink() and the classification of its failure.
DirectDelete ==
  /\ pc = "unlink0"
  /\ LET e == UnlinkErrno IN
     /\ steps' = Append(steps, Step("unlink", 0, e))
     /\ IF e = 0
          THEN /\ fexists' = FALSE
               /\ removedBy' = "deleter"
               /\ logs' = Append(logs, Log("success", 155))
               /\ Return(TRUE)
          ELSE /\ UNCHANGED <<fexists, removedBy>>
               /\ IF IsLockErrno(e)
                    THEN IF Escalates(e, force)
                           THEN /\ logs' = logs \o <<Log("warning", 159), Log("warning", 160),
                                                     Log("info", 163)>>
                                /\ pc' = "sleep1"
                                /\ UNCHANGED result
                           ELSE /\ logs' = logs \o <<Log("warning", 159), Log("warning", 160),
                                                     Log("info", 166)>>
                                /\ Return(FALSE)
                    ELSE /\ logs' = Append(logs, Log("error", 169))
                         /\ Return(FALSE)
  /\ UNCHANGED <<osName, content, flags, mode, holders, sysLock, fault,
                 force, toKill, mi, clock, calls, pre>>
  /\ UNCHANGED <<svars, tvars>>

\* _force_delete_file: time.sleep(1)
SleepShort ==
  /\ pc = "sleep1"
  /\ clock' = clock + ShortSleep
  /\ steps' = Append(steps, Step("sleep", ShortSleep, 0))
  /\ pc' = "retry1"
  /\ UNCHANGED <<osName, fexists, content, flags, mode, holders, sysLock, fault,
                 removedBy, force, logs, result, toKill, mi, calls, pre>>
  /\ UNCHANGED <<svars, tvars>>

\* _force_delete_file: the delayed retry.
DelayedRetry ==
  /\ pc = "retry1"
  /\ LET e == UnlinkErrno IN
     /\ steps' = Append(steps, Step("unlink", 1, e))
     /\ IF e = 0
          THEN /\ fexists' = FALSE
               /\ removedBy' = "deleter"
               /\ logs' = Append(logs, Log("success", 183))
               /\ Return(TRUE)
          ELSE /\ UNCHANGED <<fexists, removedBy, result>>
               /\ logs' = Append(logs, Log("info", 188))
               /\ pc' = AfterDelayedRetry(osName)
  /\ UNCHANGED <<osName, content, flags, mode, holders, sysLock, fault,
                 force, toKill, mi, clock, calls, pre>>
  /\ UNCHANGED <<svars, tvars>>

\* _force_delete_file: find_processes_using_file and the listing of the result.
FindHolders ==
  /\ pc = "find"
  /\ LET found == FindProcessesUsingFile IN
       /\ steps' = Append(steps, Step("find", 0, Len(found)))
       /\ toKill' = found
       /\ IF found # <<>>
            THEN /\ logs' = logs \o <<Log("info", 194)>>
                              \o [i \in 1..Len(found) |-> Log("info", 196)]
                 /\ pc' = "kill"
            ELSE /\ UNCHANGED logs
                 /\ pc' = "win"
  /\ UNCHANGED <<osName, fexists, content, flags, mode, holders, sysLock, fault,
                 removedBy, force, result, mi, clock, calls, pre>>
  /\ UNCHANGED <<svars, tvars>>

\* Mutant: the loop is left at the first process that could not be killed.
AfterKillStopsOnFailure(rest, o) ==
  IF rest = <<>> \/ o # "killed" THEN "sleep2" ELSE "kill"

\* for proc in processes: the next process follows whatever became of this
\* one; after the last one the caller sleeps.
AfterKill(rest, o) == IF rest = <<>> THEN "sleep2" ELSE "kill"

\* _kill_occupying_processes: one iteration of the loop.  taskkill may end the
\* process, leave it alive (check=False hides that), or subprocess.run may raise.
KillOne ==
  /\ pc = "kill"
  /\ toKill # <<>>
  /\ LET p == Head(toKill) IN
     \E o \in {"killed", "survived", "raised"} :
       /\ steps' = Append(steps, Step("kill", p,
                      CASE o = "killed" -> 0 [] o = "survived" -> 1 [] OTHER -> -1))
       /\ holders' = IF o = "killed" THEN holders \ {p} ELSE holders
       /\ logs' = Append(logs, IF o = "raised" THEN Log("warning", 226)
                                               ELSE Log("info", 224))
       /\ pc' = AfterKill(Tail(toKill), o)
  /\ toKill' = Tail(toKill)
  /\ UNCHANGED <<osName, fexists, content, flags, mode, sysLock, fault,
                 removedBy, force, result, mi, clock, calls, pre>>
  /\ UNCHANGED <<svars, tvars>>

\* _force_delete_file: time.sleep(2) after the kills.
SleepAfterKill ==
  /\ pc = "sleep2"
  /\ clock' = clock + KillSleep
  /\ steps' = Append(steps, Step("sleep", KillSleep, 0))
  /\ pc' = "retry2"
  /\ UNCHANGED <<osName, fexists, content, flags, mode, holders, sysLock, fault,
                 removedBy, force, logs, result, toKill, mi, calls, pre>>
  /\ UNCHANGED <<svars, tvars>>

\* _force_delete_file: the retry after the kills.
RetryAfterKill ==
  /\ pc = "retry2"
  /\ LET e == UnlinkErrno IN
     /\ steps' = Append(steps, Step("unlink", 2, e))
     /\ IF e = 0
          THEN /\ fexists' = FALSE
               /\ removedBy' = "deleter"
               /\ logs' = Append(logs, Log("success", 205))
               /\ Return(TRUE)
          ELSE /\ UNCHANGED <<fexists, removedBy, result, logs>>
               /\ pc' = "win"
  /\ UNCHANGED <<osName, content, flags, mode, holders, sysLock, fault,
                 force, toKill, mi, clock, calls, pre>>
  /\ UNCHANGED <<svars, tvars>>

\* _windows_force_delete: one iteration of the loop over methods.  The command
\* removes the file or not, reports any exit status, and the third one clears
\* the attributes first; subprocess.run may also raise.
WinMethod ==
  /\ pc = "win"
  /\ \E raised \in BOOLEAN, rc \in {0, 1}, removes \in BOOLEAN, attrib \in BOOLEAN :
       /\ raised => (rc = 1 /\ ~removes /\ ~attrib)
       /\ removes => CanRemove
       /\ attrib => (mi = 3 /\ fexists /\ flags # {})
       /\ (removes /\ mi = 3 /\ flags # {}) => attrib
       /\ fexists' = (fexists /\ ~removes)
       /\ flags' = IF attrib THEN {} ELSE flags
       /\ removedBy' = IF removes THEN "deleter" ELSE removedBy
       /\ steps' = Append(steps, Step("cmd", mi, IF raised THEN -1 ELSE rc))
       /\ IF raised
            THEN /\ logs' = logs \o <<Log("info", 247), Log("warning", 255)>>
                           \o (IF mi = NumWinMethods THEN <<Log("info", 258)>> ELSE <<>>)
                 /\ pc' = IF mi = NumWinMethods THEN "sleep5" ELSE "win"
                 /\ mi' = IF mi = NumWinMethods THEN mi ELSE mi + 1
                 /\ UNCHANGED result
            ELSE IF MethodWon(fexists', rc)
                   THEN /\ logs' = logs \o <<Log("info", 247), Log("success", 252)>>
                        /\ Return(TRUE)
                        /\ UNCHANGED mi
                   ELSE /\ logs' = logs \o <<Log("info", 247)>>
                             \o (IF mi = NumWinMethods THEN <<Log("info", 258)>> ELSE <<>>)
                        /\ pc' = IF mi = NumWinMethods THEN "sleep5" ELSE "win"
                        /\ mi' = IF mi = NumWinMethods THEN mi ELSE mi + 1
                        /\ UNCHANGED result
  /\ UNCHANGED <<osName, content, mode, holders, sysLock, fault,
                 force, toKill, clock, calls, pre>>
  /\ UNCHANGED <<svars, tvars>>

\* _windows_force_delete: time.sleep(5)
SleepFinal ==
  /\ pc = "sleep5"
  /\ clock' = clock + FinalSleep
  /\ steps' = Append(steps, Step("sleep", FinalSleep, 0))
  /\ pc' = "retry3"
  /\ UNCHANGED <<osName, fexists, content, flags, mode, holders, sysLock, fault,
                 removedBy, force, logs, result, toKill, mi, calls, pre>>
  /\ UNCHANGED <<svars, tvars>>

\* _windows_force_delete: the final retry.
FinalRetry ==
  /\ pc = "retry3"
  /\ LET e == UnlinkErrno IN
     /\ steps' = Append(steps, Step("unlink", 3, e))
     /\ IF e = 0
          THEN /\ fexists' = FALSE
               /\ removedBy' = "deleter"
               /\ logs' = Append(logs, Log("success", 263))
               /\ Return(TRUE)
          ELSE /\ UNCHANGED <<fexists, removedBy>>
               /\ logs' = logs \o FinalFailureLogs
               /\ Return(FALSE)
  /\ UNCHANGED <<osName, content, flags, mode, holders, sysLock, fault,
                 force, toKill, mi, clock, calls, pre>>
  /\ UNCHANGED <<svars, tvars>>

\* _unix_force_delete: os.chmod(file_path, 0o777) then file_path.unlink().
\* chmod raises when the file is gone or is not the caller's.
UnixForceDelete ==
  /\ pc = "unixforce"
  /\ \E chmodOk \in BOOLEAN :
       /\ chmodOk => fexists
       /\ IF chmodOk
            THEN LET e == UnlinkErrno IN
                 /\ mode' = ForcedMode
                 /\ steps' = steps \o <<Step("chmod", ForcedMode, 0), Step("unlink", 4, e)>>
                 /\ IF e = 0
                      THEN /\ fexists' = FALSE
                           /\ removedBy' = "deleter"
                           /\ logs' = Append(logs, Log("success", 277))
                           /\ Return(TRUE)
                      ELSE /\ UNCHANGED <<fexists, removedBy>>
                           /\ logs' = Append(logs, Log("error", 280))
                           /\ Return(FALSE)
            ELSE /\ steps' = Append(steps, Step("chmod", ForcedMode, 1))
                 /\ logs' = Append(logs, Log("error", 280))
                 /\ Return(FALSE)
                 /\ UNCHANGED <<fexists, removedBy, mode>>
  /\ UNCHANGED <<osName, content, flags, holders, sysLock, fault,
                 force, toKill, mi, clock, calls, pre>>
  /\ UNCHANGED <<svars, tvars>>

\* ------------------------------------------------------- environment
InCall == pc \notin {"idle", "done"}

\* A holder closes the file or exits on its own.
HolderExit ==
  /\ InCall
  /\ \E p \in holders : holders' = holders \ {p}
  /\ UNCHANGED <<osName, fexists, content, flags, mode, sysLock, fault, removedBy,
                 pc, force, steps, logs, result, toKill, mi, clock, calls, pre>>
  /\ UNCHANGED <<svars, tvars>>

\* Another program, which may have rights the caller lacks, removes the file
\* while the call is running (inside a sleep, or between exists() and
\* unlink()); a file held open on Windows cannot be removed by anyone.
Vanish ==
  /\ InCall
  /\ fexists /\ ~HeldOpen
  /\ fexists' = FALSE
  /\ removedBy' = "env"
  /\ UNCHANGED <<osName, content, flags, mode, holders, sysLock, fault,
                 pc, force, steps, logs, result, toKill, mi, clock, calls, pre>>
  /\ UNCHANGED <<svars, tvars>>

NextDeleter ==
  \/ \E f \in BOOLEAN : Call(f)
  \/ CheckExists
  \/ DirectDelete
  \/ SleepShort
  \/ DelayedRetry
  \/ FindHolders
  \/ KillOne
  \/ SleepAfterKill
  \/ RetryAfterKill
  \/ WinMethod
  \/ SleepFinal
  \/ FinalRetry
  \/ UnixForceDelete
  \/ HolderExit
  \/ Vanish

\* =====================================================================
\* The manifest sanitizer: _clean_extensions_json
\* =====================================================================
\* Longest manifest list.
MaxLen == 3
\* Number of consecutive _clean_extensions_json calls on the same manifest.
MaxRuns == 2


\* ---- strings are sequences of characters
Marker == <<"a", "u", "g", "m", "e", "n", "t">>

\* str.lower() on the characters that occur in the model
Lower(c) ==
  CASE c = "A" -> "a" [] c = "U" -> "u" [] c = "G" -> "g" [] c = "M" -> "m"
    [] c = "E" -> "e" [] c = "N" -> "n" [] c = "T" -> "t" [] OTHER -> c

LowerStr(s) == [i \in 1..Len(s) |-> Lower(s[i])]

\* sub in s
Contains(sub, s) ==
  \E i \in 0..(Len(s) - Len(sub)) : SubSeq(s, i + 1, i + Len(sub)) = sub

\* ---- JSON values: a string, null, or an object with string members
JStr(s) == [t |-> "str", s |-> s, kv |-> <<>>]
JNull == [t |-> "null", s |-> <<>>, kv |-> <<>>]
JDict(kv) == [t |-> "dict", s |-> <<>>, kv |-> kv]

Quoted(s) == <<"\"">> \o s \o <<"\"">>

RECURSIVE DumpMembers(_)
DumpMembers(kv) ==
  IF kv = <<>> THEN <<>>
  ELSE Quoted(kv[1].k) \o <<":", " ">> \o Quoted(kv[1].v)
       \o (IF Len(kv) > 1 THEN <<",", " ">> ELSE <<>>) \o DumpMembers(Tail(kv))

\* json.dumps(item, ensure_ascii=False) of an object
JsonDumps(item) == <<"{">> \o DumpMembers(item.kv) \o <<"}">>

\* str(item) of a value that is not an object
PyStr(item) == IF item.t = "null" THEN <<"N", "o", "n", "e">> ELSE item.s

\* The test applied to one item of the list: does it mention the marker?
IsMarked(item) ==
  IF item.t = "dict"
    THEN Contains(Marker, LowerStr(JsonDumps(item)))
    ELSE Contains(Marker, LowerStr(PyStr(item)))

\* Mutant: marked objects are appended to filtered_data as well.
RECURSIVE FilteredDataKeepsObjects(_)
FilteredDataKeepsObjects(items) ==
  IF items = <<>> THEN <<>>
  ELSE (IF IsMarked(Head(items)) /\ Head(items).t # "dict" THEN <<>> ELSE <<Head(items)>>)
       \o FilteredDataKeepsObjects(Tail(items))

\* Mutant: every kept item is inserted at the front of filtered_data.
RECURSIVE FilteredDataReversed(_)
FilteredDataReversed(items) ==
  IF items = <<>> THEN <<>>
  ELSE FilteredDataReversed(Tail(items))
       \o (IF IsMarked(Head(items)) THEN <<>> ELSE <<Head(items)>>)

\* The loop over data: the items appended to filtered_data ...
RECURSIVE FilteredData(_)
FilteredData(items) ==
  IF items = <<>> THEN <<>>
  ELSE (IF IsMarked(Head(items)) THEN <<>> ELSE <<Head(items)>>)
       \o FilteredData(Tail(items))

\* ... and those appended to removed_items.
RECURSIVE RemovedItems(_)
RemovedItems(items) ==
  IF items = <<>> THEN <<>>
  ELSE (IF IsMarked(Head(items)) THEN <<Head(items)>> ELSE <<>>)
       \o RemovedItems(Tail(items))

\* Mutant: the filtered list is written whether or not anything was removed.
ShouldWriteAlways(rem) == TRUE

\* if removed_items: write, else delete the backup
ShouldWrite(rem) == rem # <<>>

\* Mutant: a failed backup does not stop the call.
BackupMissingIgnored(bp) == FALSE

\* if not backup_path: return 0
BackupMissing(bp) == bp = 0

\* ---- file contents
\* A file that holds JSON text: its layout and the value it parses to.
JsonFile(fmt, isList, v) == [kind |-> "json", fmt |-> fmt, isList |-> isList, v |-> v]
\* A file of text that json.load rejects with JSONDecodeError.
Garbage == [kind |-> "garbage", fmt |-> "none", isList |-> FALSE, v |-> <<>>]
\* A file whose bytes are not UTF-8 text: json.load raises UnicodeDecodeError,
\* which is not a JSONDecodeError.
Undecodable == [kind |-> "garbage", fmt |-> "notutf8", isList |-> FALSE, v |-> <<>>]
\* A file that open(..., 'r') cannot open: open raises OSError.
Unreadable == [kind |-> "unreadable", fmt |-> "none", isList |-> FALSE, v |-> <<>>]

\* json.dump(filtered_data, f, indent=2, ensure_ascii=False)
JsonDump(items) == JsonFile("indent2", TRUE, items)

NoData == [isList |-> FALSE, v |-> <<>>]
\* json.load(f) of a file that parses
JsonLoad(file) == [isList |-> file.isList, v |-> file.v]

\* ---- sample records
sId == <<"i", "d">>
sPy == <<"p", "y">>
RecordPool ==
  { JDict(<<[k |-> sId, v |-> <<"A", "u", "g", "m", "e", "n", "t", ".", "x">>]>>),
    JDict(<<[k |-> sId, v |-> sPy]>>),
    JDict(<<[k |-> Marker, v |-> sPy]>>),
    JDict(<<[k |-> <<"a", "u", "g">>, v |-> <<"m", "e", "n", "t">>]>>),
    JStr(<<"A", "U", "G", "M", "E", "N", "T">>),
    JStr(<<"a", "u", "g", "m">>),
    JNull }

Lists == UNION {[1..n -> RecordPool] : n \in 0..MaxLen}

\* A longer list: three different kept items with a marked item between
\* each two of them.
OrderSample ==
  << JDict(<<[k |-> sId, v |-> sPy]>>),
     JDict(<<[k |-> sId, v |-> <<"A", "u", "g", "m", "e", "n", "t", ".", "x">>]>>),
     JStr(<<"a", "u", "g", "m">>),
     JStr(<<"A", "U", "G", "M", "E", "N", "T">>),
     JNull >>

Manifests ==
  {JsonFile("compact", TRUE, l) : l \in Lists \cup {OrderSample}}
  \cup {JsonFile("compact", FALSE, <<JDict(<<[k |-> sId, v |-> Marker]>>)>>),
        JsonFile("compact", FALSE, <<JDict(<<[k |-> sId, v |-> sPy]>>)>>),
        Garbage, Undecodable, Unreadable}

SStep(o, r) == [op |-> o, r |-> r]

SReturn(v) == /\ spc' = "done"
              /\ sResult' = v

InitSanitizer ==
  /\ manifest \in Manifests
  /\ backups = {}
  /\ nextId = 1
  /\ spc = "idle"
  /\ backupPath = 0
  /\ data = NoData
  /\ filtered = <<>>
  /\ removed = <<>>
  /\ sSteps = <<>>
  /\ sLogs = <<>>
  /\ sResult = 0
  /\ runs = 0
  /\ sPre = [manifest |-> manifest, backups |-> backups, prevResult |-> 0, prevOk |-> FALSE]

\* _clean_extensions_json(extensions_json_path, force_mode) is entered.
SCall ==
  /\ spc \in {"idle", "done"}
  /\ runs < MaxRuns
  /\ runs' = runs + 1
  /\ spc' = "backup"
  /\ backupPath' = 0
  /\ data' = NoData
  /\ filtered' = <<>>
  /\ removed' = <<>>
  /\ sSteps' = <<>>
  /\ sLogs' = <<Log("info", 364)>>
  /\ sResult' = 0
  /\ sPre' = [manifest |-> manifest, backups |-> backups, prevResult |-> sResult,
              prevOk |-> (spc = "done" /\ \A i \in 1..Len(sLogs) :
                                            sLogs[i].lvl \notin {"error", "warning"})]
  /\ UNCHANGED <<manifest, backups, nextId>>
  /\ UNCHANGED <<dvars, tvars>>

\* create_backup(path): copies the file to a new backup file and returns its
\* path, or returns None and creates nothing.
CreateBackup(ok) ==
  IF ok
    THEN /\ backups' = backups \cup {[id |-> nextId, content |-> manifest]}
         /\ backupPath' = nextId
         /\ nextId' = nextId + 1
    ELSE /\ backupPath' = 0
         /\ UNCHANGED <<backups, nextId>>

\* backup_path = create_backup(...); if not backup_path: return 0
SBackup ==
  /\ spc = "backup"
  /\ \E ok \in BOOLEAN :
       /\ CreateBackup(ok)
       /\ sSteps' = Append(sSteps, SStep("backup", IF ok THEN 1 ELSE 0))
  /\ IF BackupMissing(backupPath')
       THEN /\ sLogs' = Append(sLogs, Log("error", 370))
            /\ SReturn(0)
       ELSE /\ spc' = "read"
            /\ UNCHANGED <<sLogs, sResult>>
  /\ UNCHANGED <<manifest, data, filtered, removed, runs, sPre>>
  /\ UNCHANGED <<dvars, tvars>>

\* open(..., 'r') and json.load; the test isinstance(data, list).  A read
\* that raises JSONDecodeError leaves through the first except clause, one
\* that raises anything else (open fails, the bytes are not UTF-8) through
\* the last.
SRead ==
  /\ spc = "read"
  /\ IF manifest.kind # "json"
       THEN /\ sSteps' = Append(sSteps, SStep("read", 0))
            /\ sLogs' = Append(sLogs, Log("error", IF manifest = Garbage THEN 420 ELSE 423))
            /\ SReturn(0)
            /\ UNCHANGED data
       ELSE /\ sSteps' = Append(sSteps, SStep("read", 1))
            /\ data' = JsonLoad(manifest)
            /\ IF data'.isList
                 THEN /\ spc' = "filter"
                      /\ UNCHANGED <<sLogs, sResult>>
                 ELSE /\ sLogs' = Append(sLogs, Log("warning", 416))
                      /\ SReturn(0)
  /\ UNCHANGED <<manifest, backups, nextId, backupPath, filtered, removed, runs, sPre>>
  /\ UNCHANGED <<dvars, tvars>>

\* The loop that splits data into filtered_data and removed_items.
SFilter ==
  /\ spc = "filter"
  /\ filtered' = FilteredData(data.v)
  /\ removed' = RemovedItems(data.v)
  /\ spc' = IF ShouldWrite(removed') THEN "write" ELSE "unlink"
  /\ UNCHANGED <<manifest, backups, nextId, backupPath, data, sSteps, sLogs,
                 sResult, runs, sPre>>
  /\ UNCHANGED <<dvars, tvars>>

\* Mutant: the call reports 1 whether or not the write went through.
WriteReturnAlwaysOne(ok) == 1

\* return 1 after the write; return 0 from the except clause
WriteReturn(ok) == IF ok THEN 1 ELSE 0

\* open(..., 'w') and json.dump: the write succeeds, open raises and leaves the
\* file alone, or the write breaks off after the file was truncated; what is
\* left then is broken text, or bytes that end inside a character.
SWrite ==
  /\ spc = "write"
  /\ \E o \in {"ok", "openfail", "partial"}, left \in {Garbage, Undecodable} :
       /\ sSteps' = Append(sSteps, SStep("write",
                       CASE o = "ok" -> 1 [] o = "openfail" -> -1 [] OTHER -> 0))
       /\ manifest' = CASE o = "ok" -> JsonDump(filtered)
                        [] o = "openfail" -> manifest
                        [] OTHER -> left
       /\ sLogs' = sLogs \o <<Log("info", 400)>>
                     \o [i \in 1..Len(removed) |-> Log("info", 402)]
                     \o <<IF o = "ok" THEN Log("success", 408) ELSE Log("error", 423)>>
       /\ SReturn(WriteReturn(o = "ok"))
  /\ UNCHANGED <<backups, nextId, backupPath, data, filtered, removed, runs, sPre>>
  /\ UNCHANGED <<dvars, tvars>>

\* backup_path.unlink()
BackupsAfterUnlink(bs, bp) == {b \in bs : b.id # bp}

\* print_info ; backup_path.unlink() ; return 0.  When unlink raises, the
\* backup stays and the last except clause reports the error and returns 0.
\* The step records the backup deleted, or 0 when the deletion failed.
SUnlinkBackup ==
  /\ spc = "unlink"
  /\ \E ok \in BOOLEAN :
       /\ backups' = IF ok THEN BackupsAfterUnlink(backups, backupPath) ELSE backups
       /\ sSteps' = Append(sSteps, SStep("unlink", IF ok THEN backupPath ELSE 0))
       /\ sLogs' = sLogs \o (IF ok THEN <<Log("info", 411)>>
                                    ELSE <<Log("info", 411), Log("error", 423)>>)
  /\ SReturn(0)
  /\ UNCHANGED <<manifest, nextId, backupPath, data, filtered, removed, runs, sPre>>
  /\ UNCHANGED <<dvars, tvars>>

NextSanitizer ==
  \/ SCall
  \/ SBackup
  \/ SRead
  \/ SFilter
  \/ SWrite
  \/ SUnlinkBackup

\* =====================================================================
\* The workspace sweep: _clean_workspace_storage
\* =====================================================================
\* Most entries workspaceStorage may hold.
MaxKids == 3

\* len(TARGET_FILES)
NumTargets == 2

\* A target file of a workspace: not there, deletable, held against unlink
\* (errno 13), or failing unlink with another error.
FileStates == {"absent", "free", "locked", "faulty"}

\* file_path.unlink() on a file in state st returns (the file is deleted)
\* only for a deletable file; on any other it raises: FileNotFoundError on an
\* absent one, errno 13 on a locked one, another OSError on a failing one.
UnlinkWins(st) == st = "free"

\* The file after that unlink().
AfterUnlink(st) == IF UnlinkWins(st) THEN "absent" ELSE st

\* if e.errno in [13, 32]: if force_mode: return self._force_delete_file(...)
EntersLadder(st, f) == st = "locked" /\ f

\* find_processes_using_file names processes or none; it can name some only
\* for a file that is held.
HoldersFound(st) == IF st = "locked" THEN 0..NPids ELSE {0}

\* One taskkill of _kill_occupying_processes: ending a holder frees a locked
\* file or, when the kill fails or something else holds the file, leaves it
\* locked.
KillEffects(st) == IF st = "locked" THEN {"locked", "free"} ELSE {st}

\* os.chmod(file_path, 0o777) raises for a file that is gone, and for a file
\* of another owner.
ChmodOutcomes(st) == IF st = "absent" THEN {FALSE} ELSE BOOLEAN

\* A forced command (del /F, Remove-Item -Force, attrib and del) removes
\* the file or leaves it; a failing file it cannot remove.
CommandEffects(st) == IF st \in {"free", "locked"} THEN {st, "absent"} ELSE {st}

\* safe_delete_file(file_path, force_mode) on platform os seen from its
\* caller, when nothing else touches the file during the call: the value
\* returned and the state the file is left in.
QuietOutcomes(st, f, os) ==
  CASE st = "absent" -> {[ok |-> FALSE, st |-> "absent"]}
    [] st = "free" -> {[ok |-> TRUE, st |-> "absent"]}
    [] st = "locked" /\ f /\ os = "nt" ->
         {[ok |-> TRUE, st |-> "absent"], [ok |-> FALSE, st |-> "locked"]}
    [] OTHER -> {[ok |-> FALSE, st |-> st]}

\* An entry of workspaceStorage: a plain file, a directory with its two
\* target files, or a directory that refuses stat on what it holds
\* ("closed": Path.exists raises PermissionError there).
Kid(k, f1, f2) == [kind |-> k, f |-> <<f1, f2>>]

KidPool ==
  {Kid("dir", "absent", "absent"), Kid("dir", "free", "absent"),
   Kid("dir", "locked", "free"),
   Kid("file", "absent", "absent"), Kid("closed", "free", "absent")}

KidLists == UNION {[1..n -> KidPool] : n \in 0..MaxKids}

TLog(l, n, v) == [lvl |-> l, line |-> n, n |-> v]

\* Mutant: the partial sum is returned from the except clause.
AbortResultPartial(total) == total

\* except Exception: ... return 0
AbortResult(total) == 0

\* Mutant: workspaces_processed grows by the files deleted in the workspace.
ProcessedAfterCountsFiles(processed, inDir) == processed + inDir

\* if deleted_in_workspace > 0: workspaces_processed += 1
ProcessedAfter(processed, inDir) == IF inDir > 0 THEN processed + 1 ELSE processed

WReturn(v) == /\ wPc' = "done"
              /\ wResult' = v

\* The except clause around the loop: one error message, return 0.
SweepAbort ==
  /\ wLogs' = Append(wLogs, TLog("error", 128, 0))
  /\ WReturn(AbortResult(wTotal))

\* The for statement moves to the entry after wIdx, or the loop ends.
SweepAdvance ==
  /\ wIdx' = wIdx + 1
  /\ wPc' = IF wIdx + 1 > Len(wKids) THEN "finish" ELSE "enter"

InitSweep ==
  /\ wRoot \in {"absent", "present", "unlistable", "denied"}
  /\ wKids \in (IF wRoot = "absent" THEN {<<>>} ELSE KidLists)
  /\ wPc = "idle"
  /\ wForce = FALSE
  /\ wIdx = 0
  /\ wFile = 0
  /\ wInDir = 0
  /\ wTotal = 0
  /\ wProcessed = 0
  /\ wLogs = <<>>
  /\ wResult = 0
  /\ wPre = wKids
  /\ wMi = 1
  /\ wToKill = 0
  /\ wTaken = {}

\* _clean_workspace_storage(workspace_storage_path, force_mode) is entered.
SweepStart(f) ==
  /\ wPc = "idle"
  /\ wForce' = f
  /\ wPc' = "exists"
  /\ wLogs' = <<TLog("info", 102, 0)>>
  /\ wPre' = wKids
  /\ wMi' = 1
  /\ wToKill' = 0
  /\ wTaken' = {}
  /\ UNCHANGED <<wRoot, wKids, wIdx, wFile, wInDir, wTotal, wProcessed, wResult>>

SweepCall(f) ==
  /\ SweepStart(f)
  /\ UNCHANGED <<dvars, svars, rvars, ovars>>

\* if not workspace_storage_path.exists(): return 0 ; the counters are set.
\* Path.exists raises when stat is refused, and nothing here catches it.
SweepExists ==
  /\ wPc = "exists"
  /\ CASE wRoot = "denied" ->
            /\ wPc' = "raised"
            /\ UNCHANGED <<wLogs, wResult>>
       [] wRoot = "absent" ->
            /\ wLogs' = Append(wLogs, TLog("error", 105, 0))
            /\ WReturn(0)
       [] OTHER ->
            /\ wPc' = "list"
            /\ UNCHANGED <<wLogs, wResult>>
  /\ wTotal' = 0
  /\ wProcessed' = 0
  /\ UNCHANGED <<wRoot, wKids, wForce, wIdx, wFile, wInDir, wPre, wMi, wToKill, wTaken>>
  /\ UNCHANGED <<dvars, svars, rvars, ovars>>

\* workspace_storage_path.iterdir(): os.listdir reads the whole directory
\* before the first entry is yielded, or raises.
SweepList ==
  /\ wPc = "list"
  /\ IF wRoot = "unlistable"
       THEN /\ SweepAbort
            /\ UNCHANGED wIdx
       ELSE /\ wIdx' = 1
            /\ wPc' = IF wKids = <<>> THEN "finish" ELSE "enter"
            /\ UNCHANGED <<wLogs, wResult>>
  /\ UNCHANGED <<wRoot, wKids, wForce, wFile, wInDir, wTotal, wProcessed, wPre, wMi, wToKill, wTaken>>
  /\ UNCHANGED <<dvars, svars, rvars, ovars>>

\* if workspace_dir.is_dir(): print_info ; deleted_in_workspace = 0
SweepEnter ==
  /\ wPc = "enter"
  /\ IF wKids[wIdx].kind = "file"
       THEN /\ SweepAdvance
            /\ UNCHANGED <<wLogs, wFile, wInDir>>
       ELSE /\ wLogs' = Append(wLogs, TLog("info", 115, 0))
            /\ wInDir' = 0
            /\ wFile' = 1
            /\ wPc' = "file"
            /\ UNCHANGED wIdx
  /\ UNCHANGED <<wRoot, wKids, wForce, wTotal, wProcessed, wResult, wPre, wMi, wToKill, wTaken>>
  /\ UNCHANGED <<dvars, svars, rvars, ovars>>

\* safe_delete_file has returned ok: the two counters, and the next file.
SweepFileDone(ok) ==
  /\ wInDir' = IF ok THEN wInDir + 1 ELSE wInDir
  /\ wTotal' = IF ok THEN wTotal + 1 ELSE wTotal
  /\ wFile' = IF wFile < NumTargets THEN wFile + 1 ELSE wFile
  /\ wPc' = IF wFile < NumTargets THEN "file" ELSE "leave"

\* The target file safe_delete_file is working on.
SweepTarget == wKids[wIdx].f[wFile]

\* The call's own unlink or forced command has removed the target file, or
\* has changed what holds it.
SweepTargetBecomes(st) == wKids' = [wKids EXCEPT ![wIdx].f[wFile] = st]

\* A step of safe_delete_file leaves alone what is not named in it.
SweepFrame ==
  /\ UNCHANGED <<wRoot, wForce, wIdx, wProcessed, wLogs, wResult, wPre, wTaken>>
  /\ UNCHANGED <<dvars, svars, rvars, ovars>>

\* One iteration of the loop over TARGET_FILES begins: safe_delete_file is
\* entered and tests file_path.exists().  In a closed directory that test
\* raises, and the except clause around the outer loop ends the call.
SweepFile ==
  /\ wPc = "file"
  /\ IF wKids[wIdx].kind = "closed"
       THEN /\ SweepAbort
            /\ UNCHANGED <<wFile, wInDir, wTotal>>
       ELSE /\ IF SweepTarget = "absent"
                 THEN SweepFileDone(FALSE)
                 ELSE /\ wPc' = "unlink"
                      /\ UNCHANGED <<wFile, wInDir, wTotal>>
            /\ UNCHANGED <<wLogs, wResult>>
  /\ UNCHANGED <<wRoot, wKids, wForce, wIdx, wProcessed, wPre, wMi, wToKill, wTaken>>
  /\ UNCHANGED <<dvars, svars, rvars, ovars>>

\* safe_delete_file: file_path.unlink(), on the file as it is by now.  With
\* force_mode a lock error leads into _force_delete_file, which begins with
\* time.sleep(1); any other outcome ends the call.
SweepUnlink ==
  /\ wPc = "unlink"
  /\ IF EntersLadder(SweepTarget, wForce)
       THEN /\ wPc' = "retry1"
            /\ UNCHANGED <<wKids, wFile, wInDir, wTotal>>
       ELSE /\ SweepTargetBecomes(AfterUnlink(SweepTarget))
            /\ SweepFileDone(UnlinkWins(SweepTarget))
  /\ wMi' = 1
  /\ UNCHANGED wToKill
  /\ SweepFrame

\* _force_delete_file, after time.sleep(1): the delayed retry.
SweepDelayedRetry ==
  /\ wPc = "retry1"
  /\ SweepTargetBecomes(AfterUnlink(SweepTarget))
  /\ IF UnlinkWins(SweepTarget)
       THEN SweepFileDone(TRUE)
       ELSE /\ wPc' = AfterDelayedRetry(osName)
            /\ UNCHANGED <<wFile, wInDir, wTotal>>
  /\ UNCHANGED <<wMi, wToKill>>
  /\ SweepFrame

\* _force_delete_file on Windows: find_processes_using_file; with processes
\* named, _kill_occupying_processes is entered, else _windows_force_delete.
SweepFindHolders ==
  /\ wPc = "find"
  /\ \E found \in HoldersFound(SweepTarget) :
       /\ wToKill' = found
       /\ wPc' = IF found > 0 THEN "kill" ELSE "win"
  /\ UNCHANGED <<wKids, wMi>>
  /\ UNCHANGED <<wFile, wInDir, wTotal>>
  /\ SweepFrame

\* _kill_occupying_processes: one iteration of the loop, the taskkill command
\* for one process, which the call waits for.  After the last one comes
\* time.sleep(2).
SweepKillOne ==
  /\ wPc = "kill"
  /\ \E st \in KillEffects(SweepTarget) : SweepTargetBecomes(st)
  /\ wToKill' = wToKill - 1
  /\ wPc' = IF wToKill = 1 THEN "retry2" ELSE "kill"
  /\ UNCHANGED wMi
  /\ UNCHANGED <<wFile, wInDir, wTotal>>
  /\ SweepFrame

\* _force_delete_file, after time.sleep(2): the retry after the kills.
SweepRetryAfterKill ==
  /\ wPc = "retry2"
  /\ SweepTargetBecomes(AfterUnlink(SweepTarget))
  /\ IF UnlinkWins(SweepTarget)
       THEN SweepFileDone(TRUE)
       ELSE /\ wPc' = "win"
            /\ UNCHANGED <<wFile, wInDir, wTotal>>
  /\ UNCHANGED <<wMi, wToKill>>
  /\ SweepFrame

\* _windows_force_delete: one iteration of the loop over methods, the
\* command and the test file_path.exists() after it.  After the last method
\* comes time.sleep(5).
SweepWinMethod ==
  /\ wPc = "win"
  /\ \E raised \in BOOLEAN, st \in CommandEffects(SweepTarget) :
       /\ raised => st = SweepTarget
       /\ SweepTargetBecomes(st)
       /\ IF ~raised /\ MethodWon(st # "absent", 0)
            THEN /\ SweepFileDone(TRUE)
                 /\ UNCHANGED wMi
            ELSE /\ wPc' = IF wMi = NumWinMethods THEN "retry3" ELSE "win"
                 /\ wMi' = IF wMi = NumWinMethods THEN wMi ELSE wMi + 1
                 /\ UNCHANGED <<wFile, wInDir, wTotal>>
  /\ UNCHANGED wToKill
  /\ SweepFrame

\* _windows_force_delete, after time.sleep(5): the final retry.
SweepFinalRetry ==
  /\ wPc = "retry3"
  /\ SweepTargetBecomes(AfterUnlink(SweepTarget))
  /\ SweepFileDone(UnlinkWins(SweepTarget))
  /\ UNCHANGED <<wMi, wToKill>>
  /\ SweepFrame

\* _unix_force_delete: os.chmod(file_path, 0o777) then file_path.unlink().
\* When chmod raises (the file is gone, or is not the caller's), the unlink is
\* not tried and the except clause returns False.
SweepUnixForce ==
  /\ wPc = "unixforce"
  /\ \E chmodOk \in ChmodOutcomes(SweepTarget) :
       IF chmodOk
         THEN /\ SweepTargetBecomes(AfterUnlink(SweepTarget))
              /\ SweepFileDone(UnlinkWins(SweepTarget))
         ELSE /\ UNCHANGED wKids
              /\ SweepFileDone(FALSE)
  /\ UNCHANGED <<wMi, wToKill>>
  /\ SweepFrame

\* if deleted_in_workspace > 0: workspaces_processed += 1 ; the next entry
SweepLeave ==
  /\ wPc = "leave"
  /\ wProcessed' = ProcessedAfter(wProcessed, wInDir)
  /\ SweepAdvance
  /\ UNCHANGED <<wRoot, wKids, wForce, wFile, wInDir, wTotal, wLogs, wResult, wPre,
                 wMi, wToKill, wTaken>>
  /\ UNCHANGED <<dvars, svars, rvars, ovars>>

\* The three messages after the loop; return total_deleted
SweepFinish ==
  /\ wPc = "finish"
  /\ wLogs' = wLogs \o <<TLog("success", 131, 0), TLog("info", 132, wProcessed),
                          TLog("info", 133, wTotal)>>
  /\ WReturn(wTotal)
  /\ UNCHANGED <<wRoot, wKids, wForce, wIdx, wFile, wInDir, wTotal, wProcessed, wPre,
                 wMi, wToKill, wTaken>>
  /\ UNCHANGED <<dvars, svars, rvars, ovars>>

\* ---- other programs, while the call is running
InSweep == wPc \notin {"idle", "done", "raised"}

\* What holds a target file is given up: the file can be deleted.
SweepLockReleased ==
  /\ InSweep
  /\ \E i \in 1..Len(wKids), k \in 1..NumTargets :
       /\ wKids[i].kind = "dir" /\ wKids[i].f[k] = "locked"
       /\ wKids' = [wKids EXCEPT ![i].f[k] = "free"]
  /\ UNCHANGED <<wRoot, wPc, wForce, wIdx, wFile, wInDir, wTotal, wProcessed,
                 wLogs, wResult, wPre, wMi, wToKill, wTaken>>
  /\ UNCHANGED <<dvars, svars, rvars, ovars>>

\* Another program removes a target file.
SweepFileVanishes ==
  /\ InSweep
  /\ \E i \in 1..Len(wKids), k \in 1..NumTargets :
       /\ wKids[i].kind = "dir" /\ wKids[i].f[k] # "absent"
       /\ wKids' = [wKids EXCEPT ![i].f[k] = "absent"]
       /\ wTaken' = wTaken \cup {<<i, k>>}
  /\ UNCHANGED <<wRoot, wPc, wForce, wIdx, wFile, wInDir, wTotal, wProcessed,
                 wLogs, wResult, wPre, wMi, wToKill>>
  /\ UNCHANGED <<dvars, svars, rvars, ovars>>

NextSweep ==
  \/ \E f \in BOOLEAN : SweepCall(f)
  \/ SweepExists
  \/ SweepList
  \/ SweepEnter
  \/ SweepFile
  \/ SweepUnlink
  \/ SweepDelayedRetry
  \/ SweepFindHolders
  \/ SweepKillOne
  \/ SweepRetryAfterKill
  \/ SweepWinMethod
  \/ SweepFinalRetry
  \/ SweepUnixForce
  \/ SweepLeave
  \/ SweepFinish
  \/ SweepLockReleased
  \/ SweepFileVanishes

\* The sweep at rest, while another component is studied.
SweepAtRest ==
  /\ wRoot = "absent"
  /\ InitSweep

\* =====================================================================
\* The directory removers: _clean_history_folder, _clean_profile_extensions
\* =====================================================================
\* Most entries inside a tree, and most entries of the extensions directory.
MaxEntries == 2
MaxItems == 2

\* A directory entry of the file system with what it holds, in the order
\* os.scandir yields it: each entry deletable ("free"), held against unlink
\* ("locked") or deleted ("gone").  there: the tree itself still exists.
Tree(nm, k, es) == [name |-> nm, kind |-> k, es |-> es, there |-> TRUE]

EntryLists == UNION {[1..n -> {"free", "locked"}] : n \in 0..MaxEntries}

NameMarked == <<"x", ".", "A", "U", "G", "m", "e", "n", "t">>
NamePlain == <<"m", "s", ".", "p", "y">>

HistoryTrees ==
  {Tree(<<"H">>, "dir", es) : es \in EntryLists} \cup {Tree(<<"H">>, "file", <<>>)}

ItemPool ==
  {Tree(NameMarked, "dir", es) : es \in EntryLists}
  \cup {Tree(NamePlain, "dir", <<"free">>), Tree(NameMarked, "file", <<>>)}

ItemLists == UNION {[1..n -> ItemPool] : n \in 0..MaxItems}

\* The first entry of a tree that refuses to be deleted, 0 if none does.
FirstLocked(es) ==
  IF \E i \in 1..Len(es) : es[i] = "locked"
    THEN CHOOSE i \in 1..Len(es) :
           es[i] = "locked" /\ \A j \in 1..(i - 1) : es[j] # "locked"
    ELSE 0

\* shutil.rmtree(path, ignore_errors): the entries are deleted in scandir
\* order and the directory after them.  Without ignore_errors the first
\* entry that refuses raises, and what was deleted before it stays deleted;
\* with ignore_errors every entry that can be deleted is, and nothing is
\* raised.  A path that is not a directory is refused as a whole.
RmTree(t, ignore) ==
  IF t.kind # "dir" THEN [t |-> t, raised |-> ~ignore]
  ELSE IF ignore
    THEN [t |-> [t EXCEPT !.es = [i \in 1..Len(t.es) |->
                                    IF t.es[i] = "locked" THEN "locked" ELSE "gone"],
                          !.there = (FirstLocked(t.es) # 0)],
          raised |-> FALSE]
    ELSE LET k == FirstLocked(t.es) IN
         IF k = 0
           THEN [t |-> [t EXCEPT !.es = [i \in 1..Len(t.es) |-> "gone"],
                                 !.there = FALSE],
                 raised |-> FALSE]
           ELSE [t |-> [t EXCEPT !.es = [i \in 1..Len(t.es) |->
                                           IF i < k THEN "gone" ELSE t.es[i]]],
                 raised |-> TRUE]

\* Mutant: the tree is counted as deleted although rmtree raised.
CountAfterRmTreeAlways(raised) == 1

\* deleted_count = 1 / deleted_count += 1 stands after the rmtree call and
\* is skipped when that call raises.
CountAfterRmTree(raised) == IF raised THEN 0 ELSE 1

RReturn(v) == /\ rPc' = "done"
              /\ rResult' = v

InitRemover ==
  /\ rMode \in {"history", "extensions"}
  /\ rStat \in {"absent", "present", "denied"}
               \cup (IF rMode = "extensions" THEN {"unlistable"} ELSE {})
  /\ rItems \in (IF rStat = "absent" THEN {<<>>}
                 ELSE IF rMode = "history" THEN {<<t>> : t \in HistoryTrees}
                 ELSE ItemLists)
  /\ rPc = "idle"
  /\ rForce = FALSE
  /\ rIdx = 0
  /\ rCount = 0
  /\ rLogs = <<>>
  /\ rResult = 0
  /\ rPre = rItems

\* ---- _clean_history_folder
HistoryStart(f) ==
  /\ rPc = "idle" /\ rMode = "history"
  /\ rForce' = f
  /\ rPc' = "hexists"
  /\ rLogs' = <<TLog("info", 294, 0)>>
  /\ rPre' = rItems
  /\ UNCHANGED <<rMode, rStat, rItems, rIdx, rCount, rResult>>

HistoryCall(f) ==
  /\ HistoryStart(f)
  /\ UNCHANGED <<dvars, svars, wvars, ovars>>

\* if not history_path.exists(): return 0 ; deleted_count = 0
HistoryExists ==
  /\ rPc = "hexists"
  /\ CASE rStat = "denied" ->
            /\ rPc' = "raised"
            /\ UNCHANGED <<rLogs, rResult>>
       [] rStat = "absent" ->
            /\ rLogs' = Append(rLogs, TLog("warning", 297, 0))
            /\ RReturn(0)
       [] OTHER ->
            /\ rPc' = "hremove"
            /\ UNCHANGED <<rLogs, rResult>>
  /\ rCount' = 0
  /\ UNCHANGED <<rMode, rStat, rItems, rForce, rIdx, rPre>>
  /\ UNCHANGED <<dvars, svars, wvars, ovars>>

\* The rmtree call with its messages; return deleted_count
HistoryRemove ==
  /\ rPc = "hremove"
  /\ LET o == RmTree(rItems[1], rForce) IN
       /\ rItems' = <<o.t>>
       /\ rCount' = CountAfterRmTree(o.raised)
       /\ rLogs' = rLogs \o
            (IF rForce THEN <<TLog("success", 305, 0)>>
             ELSE IF o.raised THEN <<TLog("warning", 313, 0), TLog("info", 314, 0)>>
             ELSE <<TLog("success", 310, 0)>>)
       /\ RReturn(rCount')
  /\ UNCHANGED <<rMode, rStat, rForce, rIdx, rPre>>
  /\ UNCHANGED <<dvars, svars, wvars, ovars>>

\* ---- _clean_profile_extensions
ExtStart(f) ==
  /\ rPc = "idle" /\ rMode = "extensions"
  /\ rForce' = f
  /\ rPc' = "eexists"
  /\ rLogs' = <<TLog("info", 437, 0)>>
  /\ rPre' = rItems
  /\ UNCHANGED <<rMode, rStat, rItems, rIdx, rCount, rResult>>

ExtCall(f) ==
  /\ ExtStart(f)
  /\ UNCHANGED <<dvars, svars, wvars, ovars>>

\* if not extensions_dir.exists(): return 0 ; deleted_count = 0
ExtExists ==
  /\ rPc = "eexists"
  /\ CASE rStat = "denied" ->
            /\ rPc' = "raised"
            /\ UNCHANGED <<rLogs, rResult>>
       [] rStat = "absent" ->
            /\ rLogs' = Append(rLogs, TLog("warning", 440, 0))
            /\ RReturn(0)
       [] OTHER ->
            /\ rPc' = "elist"
            /\ UNCHANGED <<rLogs, rResult>>
  /\ rCount' = 0
  /\ UNCHANGED <<rMode, rStat, rItems, rForce, rIdx, rPre>>
  /\ UNCHANGED <<dvars, svars, wvars, ovars>>

\* extensions_dir.iterdir(): the listing, or the outer except clause.
ExtList ==
  /\ rPc = "elist"
  /\ IF rStat = "unlistable"
       THEN /\ rLogs' = Append(rLogs, TLog("error", 465, 0))
            /\ rPc' = "efinish"
            /\ UNCHANGED rIdx
       ELSE /\ rIdx' = 1
            /\ rPc' = IF rItems = <<>> THEN "efinish" ELSE "eitem"
            /\ UNCHANGED rLogs
  /\ UNCHANGED <<rMode, rStat, rItems, rForce, rCount, rResult, rPre>>
  /\ UNCHANGED <<dvars, svars, wvars, ovars>>

\* if item.is_dir() and 'augment' in item.name.lower()
IsAugmentDir(item) == item.kind = "dir" /\ Contains(Marker, LowerStr(item.name))

\* One iteration of the loop over the extensions directory.
ExtItem ==
  /\ rPc = "eitem"
  /\ IF IsAugmentDir(rItems[rIdx])
       THEN LET o == RmTree(rItems[rIdx], rForce) IN
            /\ rItems' = [rItems EXCEPT ![rIdx] = o.t]
            /\ rCount' = rCount + CountAfterRmTree(o.raised)
            /\ rLogs' = rLogs \o <<TLog("info", 448, 0)>> \o
                 (IF o.raised
                    THEN <<TLog("warning", 460, 0)>>
                           \o (IF rForce THEN <<>> ELSE <<TLog("info", 462, 0)>>)
                    ELSE <<TLog("success", IF rForce THEN 453 ELSE 457, 0)>>)
       ELSE UNCHANGED <<rItems, rCount, rLogs>>
  /\ rIdx' = rIdx + 1
  /\ rPc' = IF rIdx + 1 > Len(rItems) THEN "efinish" ELSE "eitem"
  /\ UNCHANGED <<rMode, rStat, rForce, rResult, rPre>>
  /\ UNCHANGED <<dvars, svars, wvars, ovars>>

\* The closing message; return deleted_count
ExtFinish ==
  /\ rPc = "efinish"
  /\ rLogs' = Append(rLogs, IF rCount > 0 THEN TLog("success", 468, rCount)
                                           ELSE TLog("info", 470, 0))
  /\ RReturn(rCount)
  /\ UNCHANGED <<rMode, rStat, rItems, rForce, rIdx, rCount, rPre>>
  /\ UNCHANGED <<dvars, svars, wvars, ovars>>

NextRemover ==
  \/ \E f \in BOOLEAN : HistoryCall(f)
  \/ HistoryExists
  \/ HistoryRemove
  \/ \E f \in BOOLEAN : ExtCall(f)
  \/ ExtExists
  \/ ExtList
  \/ ExtItem
  \/ ExtFinish

\* The removers at rest, while another component is studied.
RemoverAtRest ==
  /\ rMode = "history"
  /\ rStat = "absent"
  /\ InitRemover

\* =====================================================================
\* The cleanup orchestrator: clean_ide_files, with _clean_global_storage
\* and _clean_profile_directory
\* =====================================================================
\* IDEType: the two variants clean_ide_files names, and any other.
IDETypes == {"vscode", "insiders", "other"}

\* if ide_type == IDEType.VSCODE_INSIDERS / if ide_type == IDEType.VSCODE
HasHistoryAndProfile(ide) == ide \in {"insiders", "vscode"}

\* The keys of get_ide_paths that the cleaner reads.
PathKeys == {"state_db", "history", "profile_dir", "profile_extensions",
             "profile_extensions_json"}

Zones == {"globalStorage", "workspaceStorage", "history", "profile"}

\* {"globalStorage": 0, "workspaceStorage": 0, "history": 0, "profile": 0}
ZeroTally == [z \in Zones |-> 0]

\* What stat answers for a path: ENOENT, success, or EACCES because a
\* directory above the path refuses search permission.
PathStats == {"absent", "present", "denied"}

\* The paths clean_ide_files and _clean_profile_directory test with exists(),
\* each with the key of get_ide_paths it is derived from.
StatKey ==
  [workspaceStorage |-> "state_db", history |-> "history", profile_dir |-> "profile_dir",
   profile_extensions_json |-> "profile_extensions_json",
   profile_extensions |-> "profile_extensions"]

\* The globalStorage directory: absent, unreachable ("denied"), a directory
\* that refuses search permission so that nothing inside can be stat'ed
\* ("closed"), or present with its two target files.
GlobalDirs ==
  {[stat |-> s, f |-> <<"absent", "absent">>] : s \in {"absent", "denied"}}
  \cup {[stat |-> "closed", f |-> <<"free", "absent">>]}
  \cup {[stat |-> "present", f |-> <<a, b>>] : a \in FileStates, b \in {"absent", "free"}}

\* What the cleaners called for a zone may return: _clean_workspace_storage,
\* _clean_history_folder, _clean_extensions_json, _clean_profile_extensions.
SweepResults == 0..(MaxKids * NumTargets)
HistoryResults == {CountAfterRmTree(r) : r \in BOOLEAN}
SanitizerResults == {WriteReturn(ok) : ok \in BOOLEAN}
ExtensionResults == 0..MaxItems

OLog(l, n, v) == Append(oLogs, TLog(l, n, v))

OReturn(v) == /\ oPc' = "done"
              /\ oResult' = v

\* An exception no handler catches: it leaves clean_ide_files.
ORaise == /\ oPc' = "raised"
          /\ UNCHANGED oResult

InitOrch ==
  /\ oIde \in IDETypes
  /\ oPaths \in SUBSET PathKeys
  /\ oGlobal \in (IF "state_db" \in oPaths THEN GlobalDirs
                  ELSE {[stat |-> "absent", f |-> <<"absent", "absent">>]})
  /\ oStat \in {st \in [DOMAIN StatKey -> PathStats] :
                  \A k \in DOMAIN StatKey :
                     (StatKey[k] \notin oPaths
                        \/ (k # "workspaceStorage" /\ ~HasHistoryAndProfile(oIde)))
                     => st[k] = "absent"}
  /\ oPc = "idle"
  /\ oForce = FALSE
  /\ oIdx = 0
  /\ oCount = 0
  /\ oResults = ZeroTally
  /\ oTried = {}
  /\ oLogs = <<>>
  /\ oResult = ZeroTally
  /\ oMi = 1
  /\ oToKill = 0

\* ---- clean_ide_files
OrchStart(f) ==
  /\ oPc = "idle"
  /\ oForce' = f
  /\ oLogs' = <<TLog("info", 35, 0)>>
  /\ oPc' = "paths"
  /\ UNCHANGED <<oIde, oPaths, oGlobal, oStat, oIdx, oCount, oResults, oTried, oResult>>

OrchCall(f) ==
  /\ OrchStart(f)
  /\ UNCHANGED <<oMi, oToKill, dvars, svars, wvars, rvars>>

\* paths = get_ide_paths(ide_type); if not paths: return the zero summary
OrchPaths ==
  /\ oPc = "paths"
  /\ IF oPaths = {}
       THEN /\ oLogs' = OLog("error", 39, 0)
            /\ OReturn(ZeroTally)
            /\ UNCHANGED oResults
       ELSE /\ oResults' = ZeroTally
            /\ oPc' = "global"
            /\ UNCHANGED <<oLogs, oResult>>
  /\ UNCHANGED <<oIde, oPaths, oGlobal, oStat, oForce, oIdx, oCount, oTried>>
  /\ UNCHANGED <<oMi, oToKill, dvars, svars, wvars, rvars>>

\* if "state_db" in paths: the call of _clean_global_storage, up to its
\* first message.  Without the key global_storage_path stays None and the
\* workspaceStorage block is skipped with it.
OrchGlobal ==
  /\ oPc = "global"
  /\ IF "state_db" \in oPaths
       THEN /\ oTried' = oTried \cup {"globalStorage"}
            /\ oLogs' = OLog("info", 85, 0)
            /\ oPc' = "gexists"
       ELSE /\ oPc' = "history"
            /\ UNCHANGED <<oTried, oLogs>>
  /\ UNCHANGED <<oIde, oPaths, oGlobal, oStat, oForce, oIdx, oCount, oResults, oResult>>
  /\ UNCHANGED <<oMi, oToKill, dvars, svars, wvars, rvars>>

\* ---- _clean_global_storage
\* if not global_storage_path.exists(): return 0 ; deleted_count = 0
GlobalExists ==
  /\ oPc = "gexists"
  /\ CASE oGlobal.stat = "denied" ->
            /\ ORaise
            /\ UNCHANGED <<oLogs, oResults, oIdx>>
       [] oGlobal.stat = "absent" ->
            /\ oLogs' = OLog("error", 88, 0)
            /\ oResults' = [oResults EXCEPT !["globalStorage"] = 0]
            /\ oPc' = "workspace"
            /\ UNCHANGED <<oIdx, oResult>>
       [] OTHER ->
            /\ oIdx' = 1
            /\ oPc' = "gfile"
            /\ UNCHANGED <<oLogs, oResults, oResult>>
  /\ oCount' = 0
  /\ UNCHANGED <<oIde, oPaths, oGlobal, oStat, oForce, oTried>>
  /\ UNCHANGED <<oMi, oToKill, dvars, svars, wvars, rvars>>

\* safe_delete_file has returned ok: deleted_count, and the next file.
GlobalFileDone(ok) ==
  /\ oCount' = oCount + (IF ok THEN 1 ELSE 0)
  /\ oIdx' = oIdx + 1
  /\ oPc' = IF oIdx = NumTargets THEN "gfinish" ELSE "gfile"

\* One iteration of the loop over TARGET_FILES begins.  safe_delete_file
\* starts with file_path.exists() outside its try block: inside a directory
\* that refuses search permission it raises, and no caller catches it.
GlobalFile ==
  /\ oPc = "gfile"
  /\ IF oGlobal.stat = "closed"
       THEN /\ ORaise
            /\ UNCHANGED <<oCount, oIdx>>
       ELSE /\ IF oGlobal.f[oIdx] = "absent"
                 THEN GlobalFileDone(FALSE)
                 ELSE /\ oPc' = "gunlink"
                      /\ UNCHANGED <<oCount, oIdx>>
            /\ UNCHANGED oResult
  /\ UNCHANGED <<oIde, oPaths, oGlobal, oStat, oForce, oResults, oTried, oLogs>>
  /\ UNCHANGED <<oMi, oToKill, dvars, svars, wvars, rvars>>

\* The file of globalStorage safe_delete_file is working on.
GlobalTarget == oGlobal.f[oIdx]

GlobalTargetBecomes(st) == oGlobal' = [oGlobal EXCEPT !.f[oIdx] = st]

\* A step of safe_delete_file leaves alone what is not named in it.
GlobalFrame ==
  /\ UNCHANGED <<oIde, oPaths, oStat, oForce, oResults, oTried, oLogs, oResult>>
  /\ UNCHANGED <<dvars, svars, wvars, rvars>>

\* safe_delete_file: file_path.unlink(), on the file as it is by now.  With
\* force_mode a lock error leads into _force_delete_file, which begins with
\* time.sleep(1); any other outcome ends the call.
GlobalUnlink ==
  /\ oPc = "gunlink"
  /\ IF EntersLadder(GlobalTarget, oForce)
       THEN /\ oPc' = "retry1"
            /\ UNCHANGED <<oGlobal, oCount, oIdx>>
       ELSE /\ GlobalTargetBecomes(AfterUnlink(GlobalTarget))
            /\ GlobalFileDone(UnlinkWins(GlobalTarget))
  /\ oMi' = 1
  /\ UNCHANGED oToKill
  /\ GlobalFrame

\* _force_delete_file, after time.sleep(1): the delayed retry.
GlobalDelayedRetry ==
  /\ oPc = "retry1"
  /\ GlobalTargetBecomes(AfterUnlink(GlobalTarget))
  /\ IF UnlinkWins(GlobalTarget)
       THEN GlobalFileDone(TRUE)
       ELSE /\ oPc' = AfterDelayedRetry(osName)
            /\ UNCHANGED <<oCount, oIdx>>
  /\ UNCHANGED <<oMi, oToKill>>
  /\ GlobalFrame

\* _force_delete_file on Windows: find_processes_using_file; with processes
\* named, _kill_occupying_processes is entered, else _windows_force_delete.
GlobalFindHolders ==
  /\ oPc = "find"
  /\ \E found \in HoldersFound(GlobalTarget) :
       /\ oToKill' = found
       /\ oPc' = IF found > 0 THEN "kill" ELSE "win"
  /\ UNCHANGED <<oGlobal, oMi>>
  /\ UNCHANGED <<oCount, oIdx>>
  /\ GlobalFrame

\* _kill_occupying_processes: one iteration of the loop, the taskkill command
\* for one process, which the call waits for.  After the last one comes
\* time.sleep(2).
GlobalKillOne ==
  /\ oPc = "kill"
  /\ \E st \in KillEffects(GlobalTarget) : GlobalTargetBecomes(st)
  /\ oToKill' = oToKill - 1
  /\ oPc' = IF oToKill = 1 THEN "retry2" ELSE "kill"
  /\ UNCHANGED oMi
  /\ UNCHANGED <<oCount, oIdx>>
  /\ GlobalFrame

\* _force_delete_file, after time.sleep(2): the retry after the kills.
GlobalRetryAfterKill ==
  /\ oPc = "retry2"
  /\ GlobalTargetBecomes(AfterUnlink(GlobalTarget))
  /\ IF UnlinkWins(GlobalTarget)
       THEN GlobalFileDone(TRUE)
       ELSE /\ oPc' = "win"
            /\ UNCHANGED <<oCount, oIdx>>
  /\ UNCHANGED <<oMi, oToKill>>
  /\ GlobalFrame

\* _windows_force_delete: one iteration of the loop over methods, the
\* command and the test file_path.exists() after it.  After the last method
\* comes time.sleep(5).
GlobalWinMethod ==
  /\ oPc = "win"
  /\ \E raised \in BOOLEAN, st \in CommandEffects(GlobalTarget) :
       /\ raised => st = GlobalTarget
       /\ GlobalTargetBecomes(st)
       /\ IF ~raised /\ MethodWon(st # "absent", 0)
            THEN /\ GlobalFileDone(TRUE)
                 /\ UNCHANGED oMi
            ELSE /\ oPc' = IF oMi = NumWinMethods THEN "retry3" ELSE "win"
                 /\ oMi' = IF oMi = NumWinMethods THEN oMi ELSE oMi + 1
                 /\ UNCHANGED <<oCount, oIdx>>
  /\ UNCHANGED oToKill
  /\ GlobalFrame

\* _windows_force_delete, after time.sleep(5): the final retry.
GlobalFinalRetry ==
  /\ oPc = "retry3"
  /\ GlobalTargetBecomes(AfterUnlink(GlobalTarget))
  /\ GlobalFileDone(UnlinkWins(GlobalTarget))
  /\ UNCHANGED <<oMi, oToKill>>
  /\ GlobalFrame

\* _unix_force_delete: os.chmod(file_path, 0o777) then file_path.unlink().
\* When chmod raises (the file is gone, or is not the caller's), the unlink is
\* not tried and the except clause returns False.
GlobalUnixForce ==
  /\ oPc = "unixforce"
  /\ \E chmodOk \in ChmodOutcomes(GlobalTarget) :
       IF chmodOk
         THEN /\ GlobalTargetBecomes(AfterUnlink(GlobalTarget))
              /\ GlobalFileDone(UnlinkWins(GlobalTarget))
         ELSE /\ UNCHANGED oGlobal
              /\ GlobalFileDone(FALSE)
  /\ UNCHANGED <<oMi, oToKill>>
  /\ GlobalFrame

\* print_success; return deleted_count, stored in results["globalStorage"]
GlobalFinish ==
  /\ oPc = "gfinish"
  /\ oLogs' = OLog("success", 97, oCount)
  /\ oResults' = [oResults EXCEPT !["globalStorage"] = oCount]
  /\ oPc' = "workspace"
  /\ UNCHANGED <<oIde, oPaths, oGlobal, oStat, oForce, oIdx, oCount, oTried, oResult>>
  /\ UNCHANGED <<oMi, oToKill, dvars, svars, wvars, rvars>>

\* ---- clean_ide_files, continued
\* if workspace_storage_path.exists(): _clean_workspace_storage is entered
OrchWorkspace ==
  /\ oPc = "workspace"
  /\ CASE oStat.workspaceStorage = "denied" ->
            /\ ORaise
            /\ UNCHANGED oTried
       [] oStat.workspaceStorage = "absent" ->
            /\ oPc' = "history"
            /\ UNCHANGED <<oTried, oResult>>
       [] OTHER ->
            /\ oTried' = oTried \cup {"workspaceStorage"}
            /\ oPc' = "inworkspace"
            /\ UNCHANGED oResult
  /\ UNCHANGED <<oIde, oPaths, oGlobal, oStat, oForce, oIdx, oCount, oResults, oLogs>>
  /\ UNCHANGED <<oMi, oToKill, dvars, svars, wvars, rvars>>

\* results["workspaceStorage"] = the value _clean_workspace_storage returns
WorkspaceReturn ==
  /\ oPc = "inworkspace"
  /\ \E n \in SweepResults :
       oResults' = [oResults EXCEPT !["workspaceStorage"] = n]
  /\ oPc' = "history"
  /\ UNCHANGED <<oIde, oPaths, oGlobal, oStat, oForce, oIdx, oCount, oTried, oLogs, oResult>>
  /\ UNCHANGED <<oMi, oToKill, dvars, svars, wvars, rvars>>

\* if "history" in paths and paths["history"].exists(): _clean_history_folder
\* is entered, for either of the two variants.
OrchHistory ==
  /\ oPc = "history"
  /\ IF HasHistoryAndProfile(oIde) /\ "history" \in oPaths
       THEN CASE oStat.history = "denied" ->
                   /\ ORaise
                   /\ UNCHANGED oTried
              [] oStat.history = "absent" ->
                   /\ oPc' = "profile"
                   /\ UNCHANGED <<oTried, oResult>>
              [] OTHER ->
                   /\ oTried' = oTried \cup {"history"}
                   /\ oPc' = "inhistory"
                   /\ UNCHANGED oResult
       ELSE /\ oPc' = IF HasHistoryAndProfile(oIde) THEN "profile" ELSE "return"
            /\ UNCHANGED <<oTried, oResult>>
  /\ UNCHANGED <<oIde, oPaths, oGlobal, oStat, oForce, oIdx, oCount, oResults, oLogs>>
  /\ UNCHANGED <<oMi, oToKill, dvars, svars, wvars, rvars>>

\* What _clean_history_folder returns and whether the folder is gone after
\* it.  A folder that is no longer there gives 0 (line 297).  shutil.rmtree
\* removes it and 1 is returned; with force_mode rmtree ignores its errors,
\* so 1 is returned as well when the folder is left behind; without
\* force_mode a failing rmtree gives 0 and leaves the folder.
HistoryOutcomes(stat, f) ==
  IF stat # "present"
    THEN {[n |-> 0, gone |-> TRUE]}
    ELSE {[n |-> CountAfterRmTree(FALSE), gone |-> TRUE],
          [n |-> CountAfterRmTree(~f), gone |-> FALSE]}

\* results["history"] = the value _clean_history_folder returns
HistoryReturn ==
  /\ oPc = "inhistory"
  /\ \E out \in HistoryOutcomes(oStat.history, oForce) :
       /\ oResults' = [oResults EXCEPT !["history"] = out.n]
       /\ oStat' = [oStat EXCEPT !.history = IF out.gone THEN "absent" ELSE @]
  /\ oPc' = "profile"
  /\ UNCHANGED <<oIde, oPaths, oGlobal, oForce, oIdx, oCount, oTried, oLogs, oResult>>
  /\ UNCHANGED <<oMi, oToKill, dvars, svars, wvars, rvars>>

\* if "profile_dir" in paths: the call of _clean_profile_directory
OrchProfile ==
  /\ oPc = "profile"
  /\ IF "profile_dir" \in oPaths
       THEN /\ oTried' = oTried \cup {"profile"}
            /\ oPc' = "pexists"
       ELSE /\ oPc' = "return"
            /\ UNCHANGED oTried
  /\ UNCHANGED <<oIde, oPaths, oGlobal, oStat, oForce, oIdx, oCount, oResults, oLogs, oResult>>
  /\ UNCHANGED <<oMi, oToKill, dvars, svars, wvars, rvars>>

\* ---- _clean_profile_directory
\* if not profile_dir or not profile_dir.exists(): return 0 ; deleted_count = 0
ProfileExists ==
  /\ oPc = "pexists"
  /\ CASE oStat.profile_dir = "denied" ->
            /\ ORaise
            /\ UNCHANGED <<oLogs, oResults>>
       [] oStat.profile_dir = "absent" ->
            /\ oLogs' = OLog("warning", 337, 0)
            /\ oResults' = [oResults EXCEPT !["profile"] = 0]
            /\ oPc' = "return"
            /\ UNCHANGED oResult
       [] OTHER ->
            /\ oLogs' = OLog("info", 340, 0)
            /\ oPc' = "pmanifest"
            /\ UNCHANGED <<oResults, oResult>>
  /\ oCount' = 0
  /\ UNCHANGED <<oIde, oPaths, oGlobal, oStat, oForce, oIdx, oTried>>
  /\ UNCHANGED <<oMi, oToKill, dvars, svars, wvars, rvars>>

\* if extensions_json and extensions_json.exists(): _clean_extensions_json
\* is entered
ProfileManifest ==
  /\ oPc = "pmanifest"
  /\ IF "profile_extensions_json" \in oPaths
       THEN CASE oStat.profile_extensions_json = "denied" -> ORaise
              [] oStat.profile_extensions_json = "absent" ->
                   /\ oPc' = "pextensions"
                   /\ UNCHANGED oResult
              [] OTHER ->
                   /\ oPc' = "inmanifest"
                   /\ UNCHANGED oResult
       ELSE /\ oPc' = "pextensions"
            /\ UNCHANGED oResult
  /\ UNCHANGED <<oIde, oPaths, oGlobal, oStat, oForce, oIdx, oCount, oResults, oTried, oLogs>>
  /\ UNCHANGED <<oMi, oToKill, dvars, svars, wvars, rvars>>

\* deleted_count += the value _clean_extensions_json returns
ManifestReturn ==
  /\ oPc = "inmanifest"
  /\ \E n \in SanitizerResults : oCount' = oCount + n
  /\ oPc' = "pextensions"
  /\ UNCHANGED <<oIde, oPaths, oGlobal, oStat, oForce, oIdx, oResults, oTried, oLogs, oResult>>
  /\ UNCHANGED <<oMi, oToKill, dvars, svars, wvars, rvars>>

\* if extensions_dir and extensions_dir.exists(): _clean_profile_extensions
\* is entered; otherwise return deleted_count, stored in results["profile"]
ProfileExtensions ==
  /\ oPc = "pextensions"
  /\ IF "profile_extensions" \in oPaths /\ oStat.profile_extensions = "denied"
       THEN /\ ORaise
            /\ UNCHANGED oResults
       ELSE /\ IF "profile_extensions" \in oPaths /\ oStat.profile_extensions = "present"
                 THEN /\ oPc' = "inextensions"
                      /\ UNCHANGED oResults
                 ELSE /\ oResults' = [oResults EXCEPT !["profile"] = oCount]
                      /\ oPc' = "return"
            /\ UNCHANGED oResult
  /\ UNCHANGED <<oIde, oPaths, oGlobal, oStat, oForce, oIdx, oCount, oTried, oLogs>>
  /\ UNCHANGED <<oMi, oToKill, dvars, svars, wvars, rvars>>

\* deleted_count += the value _clean_profile_extensions returns
\* return deleted_count, stored in results["profile"]
ExtensionsReturn ==
  /\ oPc = "inextensions"
  /\ \E n \in ExtensionResults :
       /\ oCount' = oCount + n
       /\ oResults' = [oResults EXCEPT !["profile"] = oCount + n]
  /\ oPc' = "return"
  /\ UNCHANGED <<oIde, oPaths, oGlobal, oStat, oForce, oIdx, oTried, oLogs, oResult>>
  /\ UNCHANGED <<oMi, oToKill, dvars, svars, wvars, rvars>>

\* return results
OrchReturn ==
  /\ oPc = "return"
  /\ OReturn(oResults)
  /\ UNCHANGED <<oIde, oPaths, oGlobal, oStat, oForce, oIdx, oCount, oResults, oTried, oLogs>>
  /\ UNCHANGED <<oMi, oToKill, dvars, svars, wvars, rvars>>

\* ---- other programs, while the call is running
InOrch == oPc \notin {"idle", "done", "raised"}

\* What holds a file of globalStorage is given up: the file can be deleted.
OrchLockReleased ==
  /\ InOrch
  /\ \E k \in 1..NumTargets :
       /\ oGlobal.stat = "present" /\ oGlobal.f[k] = "locked"
       /\ oGlobal' = [oGlobal EXCEPT !.f[k] = "free"]
  /\ UNCHANGED <<oIde, oPaths, oStat, oPc, oForce, oIdx, oCount, oResults,
                 oTried, oLogs, oResult>>
  /\ UNCHANGED <<oMi, oToKill, dvars, svars, wvars, rvars>>

\* Another program removes a file of globalStorage.
OrchFileVanishes ==
  /\ InOrch
  /\ \E k \in 1..NumTargets :
       /\ oGlobal.stat = "present" /\ oGlobal.f[k] # "absent"
       /\ oGlobal' = [oGlobal EXCEPT !.f[k] = "absent"]
  /\ UNCHANGED <<oIde, oPaths, oStat, oPc, oForce, oIdx, oCount, oResults,
                 oTried, oLogs, oResult>>
  /\ UNCHANGED <<oMi, oToKill, dvars, svars, wvars, rvars>>

\* Another program removes one of the paths the later steps test.
OrchPathRemoved ==
  /\ InOrch
  /\ \E z \in DOMAIN oStat :
       /\ oStat[z] = "present"
       /\ oStat' = [oStat EXCEPT ![z] = "absent"]
  /\ UNCHANGED <<oIde, oPaths, oGlobal, oPc, oForce, oIdx, oCount, oResults,
                 oTried, oLogs, oResult>>
  /\ UNCHANGED <<oMi, oToKill, dvars, svars, wvars, rvars>>

NextOrch ==
  \/ \E f \in BOOLEAN : OrchCall(f)
  \/ OrchPaths
  \/ OrchGlobal
  \/ GlobalExists
  \/ GlobalFile
  \/ GlobalUnlink
  \/ GlobalDelayedRetry
  \/ GlobalFindHolders
  \/ GlobalKillOne
  \/ GlobalRetryAfterKill
  \/ GlobalWinMethod
  \/ GlobalFinalRetry
  \/ GlobalUnixForce
  \/ GlobalFinish
  \/ OrchWorkspace
  \/ WorkspaceReturn
  \/ OrchHistory
  \/ HistoryReturn
  \/ OrchProfile
  \/ ProfileExists
  \/ ProfileManifest
  \/ ManifestReturn
  \/ ProfileExtensions
  \/ ExtensionsReturn
  \/ OrchReturn
  \/ OrchLockReleased
  \/ OrchFileVanishes
  \/ OrchPathRemoved

\* The orchestrator at rest, while another component is studied.
OrchAtRest ==
  /\ oIde = "other"
  /\ oPaths = {}
  /\ InitOrch

TreeAtRest == SweepAtRest /\ RemoverAtRest /\ OrchAtRest

\* The sanitizer at rest, while the deleter is studied.
SanitizerAtRest ==
  /\ manifest = Garbage
  /\ backups = {}
  /\ nextId = 1
  /\ spc = "idle"
  /\ backupPath = 0
  /\ data = NoData
  /\ filtered = <<>>
  /\ removed = <<>>
  /\ sSteps = <<>>
  /\ sLogs = <<>>
  /\ sResult = 0
  /\ runs = 0
  /\ sPre = [manifest |-> manifest, backups |-> backups, prevResult |-> 0, prevOk |-> FALSE]

\* The deleter at rest on either platform, while a caller of it is studied.
DeleterIdle ==
  /\ InitDeleter
  /\ ~fexists

\* The deleter at rest, while the sanitizer is studied.
DeleterAtRest ==
  /\ DeleterIdle
  /\ osName = "posix"

InitD == InitDeleter /\ SanitizerAtRest /\ TreeAtRest

InitS == DeleterAtRest /\ InitSanitizer /\ TreeAtRest

InitW == DeleterIdle /\ SanitizerAtRest /\ InitSweep /\ RemoverAtRest /\ OrchAtRest

InitR == DeleterAtRest /\ SanitizerAtRest /\ SweepAtRest /\ InitRemover /\ OrchAtRest

InitO == DeleterIdle /\ SanitizerAtRest /\ SweepAtRest /\ RemoverAtRest /\ InitOrch

SpecDeleter ==
  /\ InitD
  /\ [][NextDeleter]_vars

SpecSanitizer ==
  /\ InitS
  /\ [][NextSanitizer]_vars

\* The statements of a running safe_delete_file call: the interpreter runs the
\* next one as long as there is one.
DeleterStep ==
  \/ CheckExists
  \/ DirectDelete
  \/ SleepShort
  \/ DelayedRetry
  \/ FindHolders
  \/ KillOne
  \/ SleepAfterKill
  \/ RetryAfterKill
  \/ WinMethod
  \/ SleepFinal
  \/ FinalRetry
  \/ UnixForceDelete

FairSpecDeleter == SpecDeleter /\ WF_vars(DeleterStep)

SpecSweep ==
  /\ InitW
  /\ [][NextSweep]_vars

SpecRemover ==
  /\ InitR
  /\ [][NextRemover]_vars

SpecOrch ==
  /\ InitO
  /\ [][NextOrch]_vars

\* =====================================================================
\* Properties of the escalating deleter
\* =====================================================================
Done == pc = "done"

StepsWith(o) == {i \in 1..Len(steps) : steps[i].op = o}

\* The outcome method of the specification, read off the success message.
MethodUsed ==
  IF \E i \in 1..Len(logs) : logs[i].lvl = "success"
    THEN LET n == (CHOOSE i \in 1..Len(logs) : logs[i].lvl = "success")
             l == logs[n].line
         IN CASE l = 155 -> "Direct"
              [] l = 183 -> "DelayedRetry"
              [] l = 205 -> "AfterProcessKill"
              [] l = 252 -> "ForcedCommand"
              [] l = 263 -> "FinalRetry"
              [] OTHER -> "UnixForced"
    ELSE "None"

\* Steps beyond the single direct attempt.
EscalationOps == {"sleep", "find", "kill", "cmd", "chmod"}

NoEscalationStep ==
  /\ \A i \in 1..Len(steps) : steps[i].op \notin EscalationOps
  /\ Cardinality(StepsWith("unlink")) <= 1
  /\ clock = 0

\* The target is as it was when the call started.
TargetUntouched ==
  /\ fexists = pre.exists
  /\ content = pre.content
  /\ flags = pre.flags
  /\ mode = pre.mode

\* C1 as stated: a call on a path that does not exist returns success, runs no
\* escalation step and leaves the file system unchanged.
C1_AbsentReturnsSuccess ==
  (Done /\ ~pre.exists) => (result = TRUE /\ NoEscalationStep /\ TargetUntouched)

\* C1, amended: a call on a path that does not exist returns False (the value
\* a failed deletion returns), after the existence test alone: no delete
\* attempt, no sleep, no holder discovery, no kill, no forced command, no
\* message, and the file system is unchanged.  This holds with force_mode
\* either way, and for a second call after the target was deleted.
C1_AbsentIsSilentNoOp ==
  (Done /\ ~pre.exists) =>
     /\ result = FALSE
     /\ steps = <<Step("exists", 0, 0)>>
     /\ logs = <<>>
     /\ NoEscalationStep
     /\ TargetUntouched

\* A second call finds the target the first call deleted.
C1_Witness ==
  /\ Done /\ calls = 2 /\ ~pre.exists /\ force
  /\ removedBy = "deleter"
  /\ result = FALSE

\* C2: without force_mode the call stops after the single direct attempt: no
\* sleep, no holder discovery, no kill, no forced command at any point of the
\* call, and a direct attempt that failed with a lock/permission error ends
\* the call with False and the hint that force mode exists.
C2_NoEscalationWithoutForce ==
  ~force =>
     /\ NoEscalationStep
     /\ pc \in {"idle", "exists", "unlink0", "done"}
     /\ (Done /\ \E i \in StepsWith("unlink") : IsLockErrno(steps[i].r)) =>
           /\ result = FALSE
           /\ logs[Len(logs)] = Log("info", 166)
           /\ fexists

C2_Witness ==
  /\ Done /\ ~force /\ result = FALSE
  /\ steps = <<Step("exists", 0, 1), Step("unlink", 0, 13)>>
  /\ holders # {}

\* The processes the call's kill steps ended.
Killed == {steps[i].a : i \in {j \in StepsWith("kill") : steps[j].r = 0}}

\* The case of C3: the call ran with force_mode on a file that only its
\* holders keep from being deleted, the direct attempt and the delayed retry
\* failed on the lock, no holder went away on its own, every kill that was
\* attempted took effect, and nobody else removed the file.
OnlyHoldersInTheWay ==
  /\ Done /\ force /\ pre.exists
  /\ pre.holders # {} /\ ~sysLock /\ fault = 0 /\ "R" \notin pre.flags
  /\ \E i \in StepsWith("unlink") : steps[i].a = 0 /\ steps[i].r = 13
  /\ \E i \in StepsWith("unlink") : steps[i].a = 1 /\ steps[i].r = 13
  /\ holders = pre.holders \ Killed
  /\ \A i \in StepsWith("kill") : steps[i].r = 0
  /\ removedBy # "env"

SucceededAfterKill ==
  /\ result = TRUE
  /\ MethodUsed = "AfterProcessKill"
  /\ \E i \in StepsWith("find") : steps[i].r = Cardinality(pre.holders)
  /\ Killed = pre.holders
  /\ ~fexists

\* C3: such a call finds the holders, kills them and succeeds at the retry
\* after the kill (AfterProcessKill).  The case arises where an open file
\* cannot be unlinked, that is where os.name is 'nt': elsewhere a holder is
\* no obstacle and the direct attempt succeeds.
C3_HolderKilledThenDeleted == OnlyHoldersInTheWay => SucceededAfterKill

C3_Witness ==
  /\ OnlyHoldersInTheWay /\ osName = "nt" /\ SucceededAfterKill
  /\ Cardinality(pre.holders) = 2

\* Every delete attempt of the call found the file locked and it is still
\* there.
StayedLocked ==
  /\ Done /\ force /\ pre.exists /\ fexists
  /\ \A i \in StepsWith("unlink") : steps[i].r = 13

\* The whole ladder of the platform was run.
LadderExhausted ==
  IF osName = "nt"
    THEN /\ {steps[i].a : i \in StepsWith("cmd")} = 1..NumWinMethods
         /\ \E i \in StepsWith("unlink") : steps[i].a = 3
         /\ steps[Len(steps)] = Step("unlink", 3, 13)
    ELSE StepsWith("chmod") # {}

\* What holds when such a call has returned.
C4_AtReturn ==
  StayedLocked =>
     /\ result = FALSE
     /\ MethodUsed = "None"
     /\ LadderExhausted
     /\ \E i \in 1..Len(logs) :
          /\ logs[i].lvl = "error"
          /\ \A j \in (i + 1)..Len(logs) : logs[j] \in {Log("error", 267), Log("info", 268)}

\* A call with force_mode on a file the caller is refused comes to an end,
\* with False and the file still there unless another program removed it.
C4_Terminates ==
  (pc = "exists" /\ force /\ fexists /\ sysLock /\ fault = 0)
     ~> (Done /\ (removedBy = "env" \/ (result = FALSE /\ fexists)))

\* C4: a call with force_mode on a file that stays locked through every step
\* of the ladder terminates and returns False with no success method, after
\* the whole ladder, the last thing reported being an error message (followed
\* on Windows by the restart hint).  No step of the model raises: a call ends
\* only by returning.
C4_LockedThroughoutFails == []C4_AtReturn /\ C4_Terminates

C4_Witness ==
  /\ StayedLocked /\ osName = "nt" /\ sysLock
  /\ Len(toKill) = 0 /\ StepsWith("kill") # {}
  /\ logs[Len(logs)] = Log("info", 268)

\* C5: a call that returns True leaves no file at the path; a path that still
\* exists is reported as failure.
C5_SuccessMeansGone == (Done /\ result = TRUE) => ~fexists

C5_Witness ==
  /\ Done /\ result = TRUE /\ MethodUsed = "ForcedCommand"
  /\ \E i \in StepsWith("cmd") : steps[i].r = 1
  /\ ~fexists

\* C6 as stated: after a call that returns failure the file (unless another
\* program removed it) is still there with the content and the attributes it
\* had before the call.
C6_FailureLeavesAttributes ==
  (Done /\ pre.exists /\ result = FALSE /\ removedBy # "env") => TargetUntouched

\* C6, amended: after a call that returns failure the file (unless another
\* program removed it) is still there with the content it had.  Its
\* attributes are those it had unless the forced-delete step ran: on Unix
\* os.chmod has then set the mode to 0o777, on Windows the third command's
\* attrib may have cleared the R, S and H flags.  Without force_mode nothing
\* about the file changes.
C6_FailureLeavesContent ==
  (Done /\ pre.exists /\ result = FALSE /\ removedBy # "env") =>
     /\ fexists
     /\ content = pre.content
     /\ \/ mode = pre.mode
        \/ /\ mode = ForcedMode
           /\ \E i \in StepsWith("chmod") : steps[i].r = 0
     /\ \/ flags = pre.flags
        \/ /\ flags = {}
           /\ \E i \in StepsWith("cmd") : steps[i].a = 3 /\ steps[i].r # -1
     /\ ~force => TargetUntouched

C6_Witness ==
  /\ Done /\ pre.exists /\ result = FALSE /\ fexists
  /\ osName = "posix" /\ mode = ForcedMode /\ pre.mode # ForcedMode
  /\ sysLock

\* ---- the order of the ladder
\* The step t may come directly after the step s in a call.
LadderFollows(s, t) ==
  CASE s.op = "exists" -> s.r = 1 /\ t.op = "unlink" /\ t.a = 0
    [] s.op = "unlink" /\ s.a = 0 ->
         IsLockErrno(s.r) /\ force /\ t = Step("sleep", ShortSleep, 0)
    [] s.op = "sleep" /\ s.a = ShortSleep -> t.op = "unlink" /\ t.a = 1
    [] s.op = "unlink" /\ s.a = 1 ->
         s.r # 0 /\ t.op = (IF osName = "nt" THEN "find" ELSE "chmod")
    [] s.op = "find" -> IF s.r > 0 THEN t.op = "kill" ELSE t.op = "cmd" /\ t.a = 1
    [] s.op = "kill" -> t.op = "kill" \/ t = Step("sleep", KillSleep, 0)
    [] s.op = "sleep" /\ s.a = KillSleep -> t.op = "unlink" /\ t.a = 2
    [] s.op = "unlink" /\ s.a = 2 -> s.r # 0 /\ t.op = "cmd" /\ t.a = 1
    [] s.op = "cmd" -> IF s.a < 3 THEN t.op = "cmd" /\ t.a = s.a + 1
                                  ELSE t = Step("sleep", FinalSleep, 0)
    [] s.op = "sleep" /\ s.a = FinalSleep -> t.op = "unlink" /\ t.a = 3
    [] s.op = "chmod" -> s.r = 0 /\ t.op = "unlink" /\ t.a = 4
    [] OTHER -> FALSE

\* No step is run twice: two steps of the same kind differ in the attempt,
\* the duration, the process or the method they are about.
EachStepOnce ==
  \A i, j \in 1..Len(steps) :
     (i < j /\ steps[i].op = steps[j].op) => steps[i].a # steps[j].a

\* The place of a step in the ladder of the specification.
ClaimedRank(s) ==
  CASE s.op = "exists" -> 0
    [] s.op = "unlink" /\ s.a = 0 -> 1
    [] s.op = "sleep" /\ s.a = ShortSleep -> 2
    [] s.op = "unlink" /\ s.a = 1 -> 3
    [] s.op = "find" -> 4
    [] s.op = "kill" -> 5
    [] s.op = "sleep" /\ s.a = KillSleep -> 6
    [] s.op = "unlink" /\ s.a = 2 -> 7
    [] s.op = "cmd" -> 8
    [] s.op = "sleep" /\ s.a = FinalSleep -> 9
    [] OTHER -> 10

\* C15 as stated: the steps come in the order of the ladder, each once; a
\* retry runs only while the path still exists (so it never meets a missing
\* path); and on every platform a call whose attempts all failed has ended
\* with the 5-unit sleep and the final retry.
C15_AsStated ==
  /\ EachStepOnce
  /\ \A i, j \in 1..Len(steps) :
        i < j => ClaimedRank(steps[i]) <= ClaimedRank(steps[j])
  /\ \A i \in StepsWith("unlink") : steps[i].a >= 1 => steps[i].r # 2
  /\ (Done /\ result = FALSE /\ Cardinality(StepsWith("unlink")) > 1) =>
        /\ steps[Len(steps) - 1] = Step("sleep", FinalSleep, 0)
        /\ steps[Len(steps)].op = "unlink"

\* C15, amended: every call runs its steps in one fixed order, each at most
\* once, a step only after every delete attempt before it failed, and
\* nothing after the first success.  On Windows the order is: direct delete,
\* 1 s sleep and retry, holder discovery, (if holders were found) a kill per
\* holder, 2 s sleep and retry, the three commands in order, 5 s sleep and
\* final retry.  Elsewhere it is: direct delete, 1 s sleep and retry, chmod
\* and one more delete attempt; there is no discovery, no command, no
\* 5 s sleep and no final timed retry.  Whether the path still exists is not
\* tested between the steps.
C15_LadderOrder ==
  /\ steps # <<>> => steps[1].op = "exists"
  /\ \A i \in 1..(Len(steps) - 1) : LadderFollows(steps[i], steps[i + 1])
  /\ EachStepOnce
  /\ \A i \in StepsWith("unlink") : steps[i].r = 0 => (i = Len(steps) /\ Done)
  /\ (Done /\ result = TRUE) =>
        \/ steps[Len(steps)].op = "unlink" /\ steps[Len(steps)].r = 0
        \/ steps[Len(steps)].op = "cmd" /\ ~fexists
  /\ osName = "nt" => StepsWith("chmod") = {}
  /\ osName # "nt" =>
        /\ StepsWith("find") = {} /\ StepsWith("kill") = {} /\ StepsWith("cmd") = {}
        /\ \A i \in StepsWith("sleep") : steps[i].a = ShortSleep
        /\ \A i \in StepsWith("unlink") : steps[i].a \in {0, 1, 4}

\* The whole Windows ladder, with two holders found.
C15_Witness ==
  /\ Done /\ osName = "nt" /\ result = FALSE
  /\ Len(steps) = 14
  /\ Cardinality(StepsWith("kill")) = 2
  /\ steps[Len(steps)] = Step("unlink", 3, 13)

\* ---- the classification of the direct delete's failure
\* The direct delete failed with an error that is neither EACCES (13, which
\* is also what a Windows sharing violation arrives as) nor errno 32.
DirectFailedOtherwise ==
  /\ Len(steps) >= 2
  /\ steps[2].op = "unlink" /\ steps[2].a = 0
  /\ steps[2].r \notin {0, 13, 32}

\* The call ended with the direct delete, without any step of escalation.
ReturnedAtOnce ==
  /\ Done /\ result = FALSE
  /\ Len(steps) = 2
  /\ NoEscalationStep

ReportsError == \E i \in 1..Len(logs) : logs[i].lvl \in {"error", "warning"}

\* C16 as stated: a direct delete that failed with any other error ends the
\* call at once, and when that error is 'path not found' the call treats it
\* as nothing to do: it reports no failure.
C16_AsStated ==
  /\ DirectFailedOtherwise => ReturnedAtOnce
  /\ (DirectFailedOtherwise /\ steps[2].r = 2) => ~ReportsError

\* The file vanished between the existence test and the direct delete of a
\* call with force_mode.
C16_Witness ==
  /\ Done /\ force /\ result = FALSE
  /\ steps = <<Step("exists", 0, 1), Step("unlink", 0, 2)>>
  /\ removedBy = "env"
  /\ logs[Len(logs)] = Log("error", 169)

\* ---- the forced-command ladder
\* A step of the loop over methods is being taken.
MethodStep == pc = "win" /\ Len(steps') = Len(steps) + 1

\* The ladder ends here with success, naming the method just run.
WinsNow ==
  /\ pc' = "done" /\ result' = TRUE
  /\ logs'[Len(logs')] = Log("success", 252)

\* The methods run so far are the first ones of the list, in its order.
MethodsInOrder ==
  \A i \in StepsWith("cmd") :
     steps[i].a = Cardinality({j \in StepsWith("cmd") : j <= i})

\* C17 as stated: after each method the path is checked; if it no longer
\* exists the ladder ends with success naming that method, and if it still
\* exists the method does not yield success.
C17_AsStated ==
  [][MethodStep => /\ ~fexists' => WinsNow
                   /\ fexists' => ~WinsNow]_vars

\* C17, amended: the methods are tried in the order of the list; after each
\* method whose invocation did not raise the path is checked, and the first
\* such method after which the path does not exist ends the ladder with
\* success naming it, whatever its exit status; a method after which the path
\* still exists never yields success, whatever its exit status.  When the
\* invocation raises, the check is skipped: a warning is logged and the next
\* method (or the final retry) follows even if the path is gone.
C17_ExistenceDecides ==
  /\ []MethodsInOrder
  /\ [][MethodStep =>
          LET m == steps'[Len(steps')] IN
          /\ m.op = "cmd" /\ m.a = mi
          /\ (m.r # -1 /\ ~fexists') => WinsNow
          /\ fexists' => ~WinsNow
          /\ m.r = -1 =>
                /\ ~WinsNow
                /\ Log("warning", 255) \in {logs'[i] : i \in (Len(logs) + 1)..Len(logs')}
                /\ pc' = (IF mi = 3 THEN "sleep5" ELSE "win")]_vars

\* The first command reported success and the file was still there; the
\* second reported failure and the file was gone: the second one wins.
C17_Witness ==
  /\ Done /\ result = TRUE /\ MethodUsed = "ForcedCommand"
  /\ Len(steps) >= 2
  /\ steps[Len(steps) - 1] = Step("cmd", 1, 0)
  /\ steps[Len(steps)] = Step("cmd", 2, 1)
  /\ removedBy = "deleter"

\* ---- termination of the holders
\* The processes a kill was attempted on, and those still to come.
KillAttempted == {steps[j].a : j \in StepsWith("kill")}
KillPending == {toKill[j] : j \in 1..Len(toKill)}

\* The retry that follows the kills has been made.
RetriedAfterKill == \E k \in StepsWith("unlink") : steps[k].a = 2

C18_AtEveryPoint ==
  /\ StepsWith("find") = {} => StepsWith("kill") = {}
  /\ \A i \in StepsWith("find") :
        /\ steps[i].r = 0 =>
              /\ StepsWith("kill") = {}
              /\ ~RetriedAfterKill
              /\ Step("sleep", KillSleep, 0) \notin {steps[j] : j \in 1..Len(steps)}
        /\ steps[i].r > 0 =>
              /\ KillAttempted \cap KillPending = {}
              /\ Cardinality(KillAttempted \cup KillPending) = steps[i].r
              /\ Cardinality(StepsWith("kill")) = Cardinality(KillAttempted)
              /\ pc # "kill" => KillPending = {}
  /\ (Done /\ StepsWith("kill") # {}) =>
        \E k \in StepsWith("unlink") :
           /\ steps[k].a = 2
           /\ \A j \in StepsWith("kill") : j < k
           /\ steps[k - 1] = Step("sleep", KillSleep, 0)

C18_Retries == (pc = "kill") ~> RetriedAfterKill

\* C18: when discovery returned holders, a kill is attempted on each of them
\* once, whatever became of the kills before it (ended, survived, raised);
\* then the call sleeps 2 s and attempts the delete again: a call in which a
\* kill was attempted does not return without that later attempt, and a call
\* that has begun the kills does reach it.  When discovery returned nothing,
\* there is no kill, no 2 s sleep and no such retry.
C18_KillAllThenRetry == []C18_AtEveryPoint /\ C18_Retries

\* The first kill raised, the second was attempted all the same, and the
\* retry followed.
C18_Witness ==
  /\ Done /\ osName = "nt"
  /\ \E i \in StepsWith("kill") :
        /\ i + 3 <= Len(steps)
        /\ steps[i].r = -1
        /\ steps[i + 1].op = "kill" /\ steps[i + 1].a # steps[i].a
        /\ steps[i + 2] = Step("sleep", KillSleep, 0)
        /\ steps[i + 3].op = "unlink" /\ steps[i + 3].a = 2

\* =====================================================================
\* Properties of the manifest sanitizer
\* =====================================================================
SDone == spc = "done"

SStepsWith(o) == {i \in 1..Len(sSteps) : sSteps[i].op = o}

\* The manifest the call started with is a list.
StartedWithList == sPre.manifest.kind = "json" /\ sPre.manifest.isList

\* Some record of the manifest the call started with mentions the marker.
StartedWithMarked == StartedWithList /\ \E i \in 1..Len(sPre.manifest.v) : IsMarked(sPre.manifest.v[i])

\* The backup this call made exists and holds the manifest as it was.
RollbackPoint ==
  /\ backupPath # 0
  /\ [id |-> backupPath, content |-> sPre.manifest] \in backups

\* C7: the manifest is written only after create_backup returned a path in the
\* same call, and that backup then holds the manifest as it was; a call whose
\* backup failed ends at once with the manifest unchanged and result 0.
C7_NoWriteWithoutBackup ==
  /\ \A i \in SStepsWith("write") :
        /\ \E j \in 1..(i - 1) : sSteps[j] = SStep("backup", 1)
        /\ RollbackPoint
  /\ manifest # sPre.manifest => RollbackPoint
  /\ (SStep("backup", 0) \in {sSteps[i] : i \in 1..Len(sSteps)}) =>
        /\ SDone
        /\ sSteps = <<SStep("backup", 0)>>
        /\ manifest = sPre.manifest
        /\ backups = sPre.backups
        /\ sResult = 0

C7_Witness ==
  /\ SDone /\ StartedWithMarked
  /\ sSteps = <<SStep("backup", 0)>>
  /\ manifest = sPre.manifest

\* C8: the manifest is written only in a call that classified at least one
\* record as removed; after a call on a manifest that does not parse, is not
\* a list, or is a list with no marked record, the manifest is exactly as it
\* was and the result is 0.
C8_WriteOnlyWhenRemoved ==
  /\ SStepsWith("write") # {} => (removed # <<>> /\ StartedWithMarked)
  /\ ~StartedWithMarked =>
        /\ manifest = sPre.manifest
        /\ sResult = 0

C8_Witness ==
  /\ SDone /\ StartedWithList /\ ~StartedWithMarked
  /\ Len(sPre.manifest.v) = MaxLen
  /\ SStep("backup", 1) \in {sSteps[i] : i \in 1..Len(sSteps)}
  /\ manifest = sPre.manifest

\* The backup this call made is still there.
BackupLeft == backupPath # 0 /\ \E b \in backups : b.id = backupPath

\* C9 as stated: after a call on a manifest in which no record is marked,
\* the backup the call made no longer exists and the result is 0.
C9_AsStated ==
  (SDone /\ ~StartedWithMarked) => (sResult = 0 /\ ~BackupLeft)

\* The manifest is a JSON object that does not mention the marker: the call
\* made a backup, warned that the file is not an array and returned 0 with
\* the backup left behind.
C9_Witness ==
  /\ SDone /\ sResult = 0
  /\ sPre.manifest = JsonFile("compact", FALSE, <<JDict(<<[k |-> sId, v |-> sPy]>>)>>)
  /\ manifest = sPre.manifest
  /\ sLogs[Len(sLogs)] = Log("warning", 416)
  /\ BackupLeft
  /\ SStepsWith("unlink") = {}

\* The call tried to delete its backup and the deletion failed.
UnlinkFailed == \E i \in SStepsWith("unlink") : sSteps[i].r = 0

\* C10 as stated: a call made directly after a call that ended without error
\* removes nothing, returns 0, leaves the manifest as it is and leaves no
\* backup beyond those that existed before it.
C10_AsStated ==
  (SDone /\ runs >= 2 /\ sPre.prevOk) =>
     /\ removed = <<>>
     /\ SStepsWith("write") = {}
     /\ sResult = 0
     /\ manifest = sPre.manifest
     /\ backups = sPre.backups

\* C10, amended: a call made directly after a call that ended without error
\* (it rewrote the manifest and returned 1, or found nothing to remove)
\* removes nothing, returns 0 and leaves the manifest as it is; it leaves no
\* backup beyond those that existed before it, except when the deletion of
\* its own backup fails: then that one backup, a copy of the manifest, stays
\* and the call ends with an error message.
C10_SecondRunIsNoOp ==
  (SDone /\ runs >= 2 /\ sPre.prevOk) =>
     /\ removed = <<>>
     /\ SStepsWith("write") = {}
     /\ sResult = 0
     /\ manifest = sPre.manifest
     /\ ~UnlinkFailed => backups = sPre.backups
     /\ UnlinkFailed =>
          /\ backups = sPre.backups \cup {[id |-> backupPath, content |-> sPre.manifest]}
          /\ sLogs[Len(sLogs)] = Log("error", 423)

C10_Witness ==
  /\ SDone /\ runs = 2 /\ sPre.prevResult = 1
  /\ Len(manifest.v) = 2
  /\ SStepsWith("unlink") # {} /\ ~UnlinkFailed
  /\ Cardinality(backups) = 1

\* The positions of the records of a list that do not mention the marker.
KeptIdx(orig) == {i \in 1..Len(orig) : ~IsMarked(orig[i])}

\* The k-th smallest member of a set of positions.
Nth(S, k) == CHOOSE i \in S : Cardinality({j \in S : j < i}) = k - 1

\* The unmarked records of a list, each once, in the order of their positions.
KeptInOrder(orig) ==
  [k \in 1..Cardinality(KeptIdx(orig)) |-> orig[Nth(KeptIdx(orig), k)]]

\* C11: the manifest a call writes is a list that holds exactly the records
\* of the original list that do not mention the marker, in their original
\* order, none duplicated, dropped or reordered; filtered_data is that list
\* from the moment the loop has run.
C11_KeptOrderPreserved ==
  /\ spc \in {"write", "unlink"} => filtered = KeptInOrder(sPre.manifest.v)
  /\ (\E i \in SStepsWith("write") : sSteps[i].r = 1) =>
        /\ manifest.kind = "json" /\ manifest.isList
        /\ manifest.v = KeptInOrder(sPre.manifest.v)
        /\ Len(manifest.v) + Len(removed) = Len(sPre.manifest.v)

\* [A, B(marked), C, D(marked), E] has become [A, C, E].
C11_Witness ==
  /\ SDone /\ sResult = 1
  /\ sPre.manifest.v = OrderSample
  /\ manifest.v = <<OrderSample[1], OrderSample[3], OrderSample[5]>>
  /\ Len(removed) = 2

\* The write of the filtered list was attempted and failed.
WriteFailed == \E i \in SStepsWith("write") : sSteps[i].r # 1

\* C20: when the write of the filtered manifest fails (open raises, or the
\* dump breaks off), the call ends by returning 0 after an error message, and
\* the backup it made is still there with the manifest as it was before the
\* call; no backup was deleted or changed.
C20_WriteFailureKeepsBackup ==
  WriteFailed =>
     /\ SDone /\ sResult = 0
     /\ StartedWithMarked /\ removed # <<>>
     /\ RollbackPoint
     /\ backups = sPre.backups \cup {[id |-> backupPath, content |-> sPre.manifest]}
     /\ SStepsWith("unlink") = {}
     /\ sLogs[Len(sLogs)] = Log("error", 423)

\* The dump broke off and left the manifest unreadable; the backup holds it.
C20_Witness ==
  /\ SDone /\ WriteFailed /\ sResult = 0
  /\ manifest = Garbage /\ sPre.manifest # Garbage
  /\ RollbackPoint
  /\ runs = 2 /\ Cardinality(backups) = 2

\* =====================================================================
\* Properties of the workspace sweep
\* =====================================================================
\* The state of the deleter's target in the terms of QuietOutcomes.
FileStateOf(ex, fl, hs) ==
  IF ~ex THEN "absent"
  ELSE IF sysLock THEN "locked"
  ELSE IF fault # 0 THEN "faulty"
  ELSE IF osName = "nt" /\ (hs # {} \/ "R" \in fl) THEN "locked"
  ELSE "free"

\* What a call of the deleter made of its target.
DeleterOutcome == [ok |-> result, st |-> FileStateOf(fexists, flags, holders)]

\* QuietOutcomes agrees with the ladder: a call of the deleter that nothing
\* else interfered with ends in one of the outcomes it lists (an invariant
\* of SpecDeleter).
SummaryAgrees ==
  (Done /\ removedBy # "env" /\ holders = pre.holders \ Killed) =>
     DeleterOutcome \in QuietOutcomes(FileStateOf(pre.exists, pre.flags, pre.holders), force, osName)

WDone == wPc = "done"

WLogged(l, n) == \E i \in 1..Len(wLogs) : wLogs[i].lvl = l /\ wLogs[i].line = n

\* The call went through the whole loop and returned after it.
SweptThrough == WDone /\ WLogged("success", 131)

\* The call ended in the except clause around the loop.
SweepAborted == WDone /\ WLogged("error", 128)

\* The target files of entry i that were there when the call started and
\* are gone.
GoneIn(i) ==
  {k \in 1..NumTargets : /\ wPre[i].kind = "dir"
                         /\ wPre[i].f[k] # "absent"
                         /\ wKids[i].f[k] = "absent"}

Gone == {q \in (1..Len(wPre)) \X (1..NumTargets) : q[2] \in GoneIn(q[1])}

\* Those of them that no other program removed: the call deleted them.
DeletedByCall == Gone \ wTaken

\* The entries that hold a file of S.
EntriesOf(S) == {q[1] : q \in S}

\* The numbers the call reported as workspaces processed and files deleted.
ReportedProcessed == wLogs[Len(wLogs) - 1]

ReportedDeleted == wLogs[Len(wLogs)]

\* C12: a call that goes through the whole of workspaceStorage returns and
\* reports the number of target files deleted, summed over the child
\* directories, and reports as workspaces processed the number of child
\* directories in which a target file was deleted: when no other program
\* removes a target file during the call, these are exactly the files that
\* were there at the start and are gone, and the directories that held
\* them.  A file another program removed during the call may be counted or
\* not, so in general every file the call deleted is counted and every
\* counted file is gone, and likewise for the directories.  Entries that are
\* not directories and directories without a target file add nothing to
\* either count and are left as they were.  (A call that ends in the except
\* clause returns 0 instead: C19.)
C12_SweepCounts ==
  SweptThrough =>
     /\ ReportedDeleted = TLog("info", 133, wResult)
     /\ ReportedProcessed.line = 132
     /\ Cardinality(DeletedByCall) <= wResult
     /\ wResult <= Cardinality(Gone)
     /\ Cardinality(EntriesOf(DeletedByCall)) <= ReportedProcessed.n
     /\ ReportedProcessed.n <= Cardinality(EntriesOf(Gone))
     /\ \A i \in 1..Len(wPre) :
           (wPre[i].kind = "file" \/ wPre[i].f = <<"absent", "absent">>) =>
              (wKids[i] = wPre[i] /\ i \notin EntriesOf(Gone))

\* Three child directories, two holding one target file each: 2 and 2.
C12_Witness ==
  /\ SweptThrough
  /\ Len(wPre) = 3
  /\ \A i \in 1..3 : wPre[i].kind = "dir"
  /\ Cardinality({i \in 1..3 : wPre[i].f = <<"absent", "absent">>}) = 1
  /\ Cardinality({i \in 1..3 : wPre[i].f \in {<<"free", "absent">>, <<"absent", "free">>}}) = 2
  /\ wTaken = {}
  /\ Cardinality(Gone) = 2
  /\ wResult = 2
  /\ ReportedProcessed.n = 2

\* C19: a call that ends in the except clause around the loop (the listing
\* was refused, or stat was refused inside a child directory) returns 0 after
\* one error message and reports no counts, whatever was deleted before the
\* failure.
C19_AbortReturnsZero ==
  SweepAborted =>
     /\ wResult = 0
     /\ wLogs[Len(wLogs)] = TLog("error", 128, 0)
     /\ ~WLogged("success", 131) /\ ~WLogged("info", 132) /\ ~WLogged("info", 133)

\* The failure came in the third entry, after files of the first two were
\* deleted.
C19_Witness ==
  /\ SweepAborted
  /\ wIdx = 3 /\ wPre[3].kind = "closed"
  /\ wTaken = {}
  /\ EntriesOf(Gone) = {1, 2}
  /\ wTotal = Cardinality(Gone)
  /\ wResult = 0

\* =====================================================================
\* Properties of the directory removers
\* =====================================================================
RDone == rPc = "done"

HasLocked(t) == t.kind = "dir" /\ \E j \in 1..Len(t.es) : t.es[j] = "locked"

\* The trees the call is to remove: the History folder, or the directories
\* of the extensions directory whose name mentions the marker.
Targeted(i) == rMode = "history" \/ IsAugmentDir(rPre[i])

\* A call without force_mode, on a path that exists and can be listed, has
\* returned.
ReturnedWithoutForce == RDone /\ ~rForce /\ rStat = "present"

\* C13 as stated: after a call without force_mode a tree that holds a locked
\* file is not counted and is intact: every entry it had is still there.
C13_AsStated ==
  ReturnedWithoutForce =>
     /\ rResult = Cardinality({i \in 1..Len(rPre) :
                       Targeted(i) /\ rPre[i].kind = "dir" /\ ~HasLocked(rPre[i])})
     /\ \A i \in 1..Len(rPre) :
           (Targeted(i) /\ HasLocked(rPre[i])) => rItems[i] = rPre[i]

\* C13, amended: a call without force_mode returns (it does not raise) the
\* number of trees it removed whole; a tree that holds a locked file is not
\* among them: it is still there with its locked file and with every entry
\* the walk had not reached, but the entries the walk deleted before it met
\* the locked file are gone.
C13_LockedTreeSurvives ==
  ReturnedWithoutForce =>
     /\ rResult = Cardinality({i \in 1..Len(rPre) :
                       Targeted(i) /\ rPre[i].kind = "dir" /\ ~HasLocked(rPre[i])})
     /\ \A i \in 1..Len(rPre) :
           (Targeted(i) /\ HasLocked(rPre[i])) =>
              /\ rItems[i].there
              /\ \E k \in 1..Len(rPre[i].es) :
                    /\ rPre[i].es[k] = "locked"
                    /\ \A j \in 1..(k - 1) :
                          rPre[i].es[j] = "free" /\ rItems[i].es[j] = "gone"
                    /\ \A j \in k..Len(rPre[i].es) : rItems[i].es[j] = rPre[i].es[j]

\* The History folder held a deletable file and then a locked one: the call
\* returned 0, the first file is gone, the locked one is there.
C13_Witness ==
  /\ ReturnedWithoutForce /\ rMode = "history"
  /\ rPre[1].es = <<"free", "locked">>
  /\ rItems[1].es = <<"gone", "locked">>
  /\ rItems[1].there
  /\ rResult = 0

\* =====================================================================
\* Properties of the cleanup orchestrator
\* =====================================================================
\* The zones that apply to the call: those clean_ide_files has a path for,
\* under the variant it was called with.
ZoneApplies(z) ==
  CASE z = "globalStorage" -> "state_db" \in oPaths
    [] z = "workspaceStorage" ->
         "state_db" \in oPaths /\ oStat.workspaceStorage # "absent"
    [] z = "history" ->
         HasHistoryAndProfile(oIde) /\ "history" \in oPaths /\ oStat.history # "absent"
    [] OTHER -> HasHistoryAndProfile(oIde) /\ "profile_dir" \in oPaths

OrchEnded == oPc \in {"done", "raised"}

\* C14: clean_ide_files never lets a failure reach its caller, and when it
\* has ended every zone that applies has been attempted and a summary with
\* a count for each of the four zones has been returned.
C14_ZonesIsolated ==
  /\ oPc # "raised"
  /\ OrchEnded =>
       /\ \A z \in Zones : ZoneApplies(z) => z \in oTried
       /\ DOMAIN oResult = Zones

\* The call for VS Code whose globalStorage directory refuses search
\* permission: the exception of the first stat inside it has left
\* clean_ide_files after two messages, and the history zone, which applies,
\* was never attempted.
C14_Witness ==
  /\ oPc = "raised"
  /\ oIde = "vscode"
  /\ oGlobal.stat = "closed"
  /\ oTried = {"globalStorage"}
  /\ ZoneApplies("history")
  /\ oLogs = <<TLog("info", 35, 0), TLog("info", 85, 0)>>

====
